---- MODULE Spec2Model ----
(***************************************************************************)
(* Memory retrieval, ranking and consolidation of a simulated agent        *)
(* (SurvivorWorld): src/agent/agent_cognition/retrieve.py and reflect.py.  *)
(*                                                                         *)
(* Three specifications share the module:                                  *)
(*   NormSpec  minmax_normalize applied to bounded lists of values         *)
(*   RankSpec  get_relevant_memory_ids followed by rank_nodes              *)
(*   Spec      a memory store with retrieval and reflection cycles         *)
(*                                                                         *)
(* Scores are exact rationals [n, d]; a missing value (Python None) is the *)
(* record with d = 0.                                                      *)
(***************************************************************************)
EXTENDS Integers, Sequences, FiniteSets, TLC

VARIABLES
    lst,            \* NormSpec: the list handed to minmax_normalize
    norm_out,       \* NormSpec: what minmax_normalize returned
    norm_pc,        \* NormSpec: "off" | "in" | "out"
    observations,   \* character.memory.observations: the ordered log of records
    keyword_nodes,  \* character.memory.keyword_nodes: keyword -> list of node ids
    embeddings,     \* character.memory embedding cache: node id -> text embedded
    goals,          \* character.goals: "absent" (no attribute), "none" or a text
    memory_ids,     \* RankSpec: the ids collected from the keyword index
    node_ids,       \* RankSpec: list(set(memory_ids))
    rank_query,     \* RankSpec: the query handed to rank_nodes
    ranked,         \* RankSpec: what rank_nodes returned
    rank_pc,        \* RankSpec: "off" | "collect" | "rank" | "done"
    ret_args,       \* RetrieveSpec: the arguments of the retrieve call
    memories,       \* what retrieve returned
    memories2,      \* RetrieveSpec: what the repeated call returned
    retrieval_kwds, \* the keywords the last retrieve call searched with
    ret_pc,         \* RetrieveSpec: "off" | "call" | "again" | "done"
    pc,             \* generalize: "idle" | "loop" | "generate" | "fold_new" |
                    \*   "fold_updated" | "done" | "aborted" | "error"
    relevant_memories,          \* the pool, shortest string first
    relevant_memories_limited,  \* the batch cut from the pool
    available_tokens,           \* the token budget of one summarizer call
    gpt_calls,      \* gpt_handler.generate calls made by the retry loop at hand
    response,       \* what the last generate call gave
    batches,        \* batches folded into the memory in this cycle
    sent,           \* ids of the records sent to the summarizer in this cycle
    user_prompt_list, \* the two memory sections of the prompt of the batch
    game,           \* KeywordSpec: game.round and the goals the character has per round
    item,           \* the response element folded last
    items_seen,     \* elements folded from the list at hand
    error,          \* the exception that left generalize
    observations0,  \* the log when the cycle started
    token_offset,   \* Act.token_offset: tokens the next prompt reserves
    offset_pad,     \* Act.offset_pad
    consumed_tokens, \* build_messages: what the user message was built with
    act_response,   \* what gpt_handler.generate gave generate_action
    action_to_take, \* what act() returned last
    act_pc,         \* act(): "idle" | "generate" | "returned" | "TypeError"
    act_calls,      \* act() calls made on the Act object
    GPT_HANDLER,    \* gpt_agent_setup.GPT_HANDLER: the parameters it holds
    helper,         \* the helper of gpt_agent_setup called last
    helper_pc,      \* "idle" | "generate" | "finished" | "raised"
    completion_params, \* the parameters in effect at the last completion call
    helper_calls,   \* helper calls made
    command_history, \* Parser.command_history: the list of chat messages
    parser_class,   \* the class of the parser: "Parser" | "GptParser"
    parse_args,     \* the commands of the last two parse_command calls
    parse_out,      \* what the last parse_command call returned and did
    parse_calls,    \* parse_command calls made
    char_location,  \* character.location of each character of the game
    last_dialogue_target, \* what get_last_dialogue_target gives per character
    talk_log,       \* the last two Talk actions called: who, whom, and how it went
    talks           \* Talk actions called

norm_vars  == <<lst, norm_out, norm_pc>>
store_vars == <<observations, keyword_nodes, embeddings, goals>>
rank_vars  == <<memory_ids, node_ids, rank_query, ranked, rank_pc>>

retr_vars  == <<ret_args, memories, memories2, retrieval_kwds, ret_pc>>

cycle_vars == <<pc, relevant_memories, relevant_memories_limited, available_tokens,
                gpt_calls, response, batches, sent, user_prompt_list, game, item, items_seen, error,
                observations0>>

base_vars == <<norm_vars, store_vars, rank_vars, retr_vars, cycle_vars>>

act_vars == <<token_offset, offset_pad, consumed_tokens, act_response,
              action_to_take, act_pc, act_calls>>

\* the state of the parts outside the memory and its retrieval
handler_vars == <<GPT_HANDLER, helper, helper_pc, completion_params, helper_calls>>

parser_vars == <<command_history, parser_class, parse_args, parse_out, parse_calls>>

talk_vars == <<char_location, last_dialogue_target, talk_log, talks>>

ext_vars == <<act_vars, handler_vars, parser_vars, talk_vars>>

\* what an ActSpec step leaves alone
act_rest == <<base_vars, handler_vars, parser_vars, talk_vars>>

\* what a HandlerSpec step leaves alone
handler_rest == <<base_vars, act_vars, parser_vars, talk_vars>>

\* what a ParserSpec step leaves alone
parser_rest == <<base_vars, act_vars, handler_vars, talk_vars>>

\* what a TalkSpec step leaves alone
talk_rest == <<base_vars, act_vars, handler_vars, parser_vars>>

vars == <<base_vars, ext_vars>>

\* no response yet
NoResponse == [limit_exceeded |-> FALSE, text |-> "none", token_difference |-> 0]

\* act.py:31-36  Act.__init__: token_offset = 0, offset_pad = 5
ActIdle ==
    /\ token_offset = 0
    /\ offset_pad = 5
    /\ consumed_tokens = 0
    /\ act_response = NoResponse
    /\ action_to_take = "none"
    /\ act_pc = "idle"
    /\ act_calls = 0

\* no parameter set: GptCallHandler's own default applies
Unset == [n |-> 0, d |-> 0]

\* gpt_agent_setup.py:12-19: the parameters GPT_HANDLER is built with, as
\* exact fractions; stop and presence_penalty are not passed
DefaultParams ==
    [max_tokens |-> [n |-> 100, d |-> 1], temperature |-> [n |-> 1, d |-> 1],
     top_p |-> [n |-> 1, d |-> 1], stop |-> "None", presence_penalty |-> Unset]

HandlerIdle ==
    /\ GPT_HANDLER = DefaultParams
    /\ helper = "none"
    /\ helper_pc = "idle"
    /\ completion_params = DefaultParams
    /\ helper_calls = 0

\* no parse_command call made yet
NoCall == [returned |-> FALSE, executed |-> FALSE, appended |-> 0]

\* parsing.py:44-47  Parser.__init__: command_history = []
ParserIdle ==
    /\ command_history = <<>>
    /\ parser_class = "Parser"
    /\ parse_args = [command |-> "none", previous |-> "none"]
    /\ parse_out = NoCall
    /\ parse_calls = 0

\* no game with characters is set up
TalkIdle ==
    /\ char_location = <<>>
    /\ last_dialogue_target = <<>>
    /\ talk_log = <<>>
    /\ talks = 0

ExtIdle == ActIdle /\ HandlerIdle /\ ParserIdle /\ TalkIdle

----------------------------------------------------------------------------
(* Bounds of the model *)

\* longest list handed to minmax_normalize in NormSpec
MaxLen == 3
\* largest raw value in a list handed to minmax_normalize in NormSpec
MaxVal == 2
\* largest importance score of a record
MaxImp == 1
\* largest node id of the log in RankSpec
MaxRankId == 8
\* longest log in RetrieveSpec
MaxRetrStore == 2
\* largest limit n handed to retrieve in RetrieveSpec
MaxK == 2
\* longest log in Spec
MaxStore == 2
\* largest token budget of a summarizer call
MaxB == 1
\* most elements folded from one list of a response
MaxItems == 1

----------------------------------------------------------------------------
(* Exact rational arithmetic standing in for Python floats *)

Min2(a, b) == IF a <= b THEN a ELSE b

Abs(x) == IF x < 0 THEN -x ELSE x

RECURSIVE GCD(_, _)
GCD(a, b) == IF b = 0 THEN a ELSE GCD(b, a % b)

\* the rational n/d in lowest terms, d > 0
Rat(n, d) ==
    LET s == IF d < 0 THEN -1 ELSE 1
        g == GCD(Abs(n), Abs(d))
    IN  [n |-> (s * n) \div g, d |-> (s * d) \div g]

Zero == [n |-> 0, d |-> 1]
One  == [n |-> 1, d |-> 1]
Half == [n |-> 1, d |-> 2]

\* Python None in a list of values
NoneVal == [n |-> 0, d |-> 0]
IsNone(x) == x.d = 0

\* Python truthiness of a value: None and 0 are falsy
Truthy(x) == ~IsNone(x) /\ x.n # 0

RAdd(a, b) == Rat(a.n * b.d + b.n * a.d, a.d * b.d)
RSub(a, b) == Rat(a.n * b.d - b.n * a.d, a.d * b.d)
RMul(a, b) == Rat(a.n * b.n, a.d * b.d)
RDiv(a, b) == Rat(a.n * b.d, a.d * b.n)
RLt(a, b)  == a.n * b.d < b.n * a.d
RLe(a, b)  == a.n * b.d <= b.n * a.d

\* min() / max() of a non-empty sequence of (non-None) values
SeqMin(s) == CHOOSE x \in {s[i] : i \in DOMAIN s} :
                \A y \in {s[i] : i \in DOMAIN s} : RLe(x, y)
SeqMax(s) == CHOOSE x \in {s[i] : i \in DOMAIN s} :
                \A y \in {s[i] : i \in DOMAIN s} : RLe(y, x)

----------------------------------------------------------------------------
(* retrieve.py: minmax_normalize *)

SeqSet(s) == {s[k] : k \in DOMAIN s}

HasNone(s) == \E i \in DOMAIN s : IsNone(s[i])

\* min(lst) / max(lst) raise TypeError as soon as two elements are compared
\* and one of them is None; a one-element list is returned uncompared.
\* np.nanmin / np.nanmax compare the same objects and raise alike.
BuiltinMinRaises(s) == Len(s) >= 2 /\ HasNone(s)

\* retrieve.py:230  fixed_list = [x if x else 0 for x in lst]
fixed_list(s) == [i \in DOMAIN s |-> IF Truthy(s[i]) THEN s[i] ELSE Zero]

\* retrieve.py:222-232
min_val(s) == IF BuiltinMinRaises(s) THEN SeqMin(fixed_list(s))
              ELSE IF HasNone(s) THEN NoneVal ELSE SeqMin(s)
max_val(s) == IF BuiltinMinRaises(s) THEN SeqMax(fixed_list(s))
              ELSE IF HasNone(s) THEN NoneVal ELSE SeqMax(s)

\* a mutant of Scale: the minimum is not subtracted
ScaleNoShift(x, lo, range, target_min, target_max) ==
    RAdd(RDiv(RMul(x, RSub(target_max, target_min)), range), target_min)

\* retrieve.py:239  (x - min_val) * (target_max - target_min) / range_val + target_min
Scale(x, lo, range, target_min, target_max) ==
    RAdd(RDiv(RMul(RSub(x, lo), RSub(target_max, target_min)), range), target_min)

\* a mutant of ZeroRangeOut: the zero range is divided by, as if unguarded
ZeroRangeRaises(s) == [kind |-> "ZeroDivisionError", vals |-> <<>>]

\* retrieve.py:235-237  out = [0.5] * len(lst): a Python list, not an array
ZeroRangeOut(s) == [kind |-> "list", vals |-> [i \in DOMAIN s |-> Half]]

\* retrieve.py:241-243: a missing or zero value becomes the midpoint
MidFilled(s, lo, hi) ==
    [i \in DOMAIN s |-> IF Truthy(s[i]) THEN s[i] ELSE RDiv(RAdd(hi, lo), Rat(2, 1))]

\* retrieve.py:239 and 244 over the whole list: a numpy array
ScaleAll(s, lo, range_val, target_min, target_max) ==
    [kind |-> "array",
     vals |-> [i \in DOMAIN s |-> Scale(s[i], lo, range_val, target_min, target_max)]]

\* retrieve.py:233-245, lo and hi the minimum and maximum found before
NormalizeBetween(s, lo, hi, target_min, target_max) ==
    IF IsNone(lo) \/ IsNone(hi)
    THEN [kind |-> "TypeError", vals |-> <<>>]    \* None - None at line 233
    ELSE IF RSub(hi, lo) = Zero THEN ZeroRangeOut(s)
    ELSE IF ~HasNone(s) THEN ScaleAll(s, lo, RSub(hi, lo), target_min, target_max)
    ELSE ScaleAll(MidFilled(s, lo, hi), lo, RSub(hi, lo), target_min, target_max)

\* retrieve.py:208-245.  The result is tagged with what Python returns: a
\* plain list, a numpy array, or the exception that leaves the function.
minmax_normalize(s, target_min, target_max) ==
    IF Len(s) = 0 THEN [kind |-> "ValueError", vals |-> <<>>]
    ELSE NormalizeBetween(s, min_val(s), max_val(s), target_min, target_max)

Raised(r) == r.kind \notin {"list", "array"}

----------------------------------------------------------------------------
(* Texts.  Descriptions, goals and queries are drawn from small fixed sets;
   the external capabilities (keyword extraction, embedding similarity,
   token counting, string length) are tables over them. *)

\* memory descriptions and summarizer statements
Descs == {"axe", "boat", "camp"}

\* rp.memory_query_questions: the probe queries of a reflection cycle
memory_query_questions == <<"q_learn", "q_allies">>

\* query = None
NoQuery == "None"

Queries == {NoQuery} \cup {memory_query_questions[i] : i \in DOMAIN memory_query_questions}

GoalTexts == {"g_win", "g_ally"}

\* game.parser.extract_keywords(text): the set of <<category, word>> pairs
\* found in the text; empty for degenerate text
extract_keywords(text) ==
    CASE text = "axe"      -> {<<"objects", "axe">>}
      [] text = "boat"     -> {<<"objects", "axe">>, <<"characters", "troll">>}
      [] text = "camp"     -> {}
      [] text = "q_learn"  -> {<<"misc_deps", "agent">>}
      [] text = "q_allies" -> {<<"characters", "troll">>}
      [] text = "g_win"    -> {<<"objects", "axe">>}
      [] text = "g_ally"   -> {<<"characters", "troll">>}
      [] OTHER             -> {}

AllKeywords == {<<"objects", "axe">>, <<"characters", "troll">>, <<"misc_deps", "agent">>}

\* the order in which the search keys are walked (dict and list order)
KeywordOrder == <<<<"objects", "axe">>, <<"characters", "troll">>, <<"misc_deps", "agent">>>>

\* cosine similarity of two embeddings, as a number of hundredths
CosSim(a, b) ==
    IF a = b THEN 100
    ELSE LET p == {a, b}
         IN  CASE p = {"axe", "boat"}      -> 60
               [] p = {"axe", "camp"}      -> 10
               [] p = {"boat", "camp"}     -> 60
               [] p = {"axe", "q_learn"}   -> 30
               [] p = {"boat", "q_learn"}  -> 30
               [] p = {"camp", "q_learn"}  -> 70
               [] p = {"axe", "q_allies"}  -> 20
               [] p = {"boat", "q_allies"} -> 80
               [] p = {"camp", "q_allies"} -> 20
               [] p = {"axe", "persona"}   -> 40
               [] p = {"boat", "persona"}  -> 40
               [] p = {"camp", "persona"}  -> 50
               [] p = {"axe", "g_win"}     -> 90
               [] p = {"boat", "g_win"}    -> 40
               [] p = {"camp", "g_win"}    -> 30
               [] OTHER                    -> 0

\* len(description)
DescLen(d) ==
    CASE d = "axe" -> 3 [] d = "boat" -> 4 [] d = "camp" -> 4 [] OTHER -> 0

\* tokens of a description under the tokenizer
DescTokens(d) ==
    CASE d = "axe" -> 1 [] d = "boat" -> 2 [] d = "camp" -> 1 [] OTHER -> 0

----------------------------------------------------------------------------
(* The memory stream (agent/memory_stream.py) *)

MemoryType_ACTION     == "ACTION"
MemoryType_REFLECTION == "REFLECTION"
MemoryTypes == {MemoryType_ACTION, MemoryType_REFLECTION}

\* decay of the recency score, character.memory.gamma = GammaNum / GammaDen
GammaNum == 1
GammaDen == 2

\* character.memory.recency_alpha, importance_alpha, relevance_alpha
recency_alpha    == 1
importance_alpha == 1
relevance_alpha  == 1

\* character.memory.lookback: how many recent records seed the search keys
lookback == 2

\* node ids are 0-based positions in the log
Ids(obs) == 0..(Len(obs) - 1)
Node(obs, id) == obs[id + 1]

\* character.memory.num_observations
num_observations(obs) == Len(obs)

NoEmbedding == "unset"

\* character.memory.get_embedding(i): the cached embedding, computed from
\* the node's description when none is cached
get_embedding(obs, emb, id) ==
    IF emb[id + 1] # NoEmbedding THEN emb[id + 1] ELSE Node(obs, id).node_description

\* the cache after get_embedding was called for every id of ids
CacheAfterGet(obs, emb, ids) ==
    [i \in DOMAIN emb |->
        IF (i - 1) \in ids /\ emb[i] = NoEmbedding
        THEN obs[i].node_description ELSE emb[i]]

\* character.memory.get_query_embeddings(): persona and goals
get_query_embeddings(g) ==
    {"persona"} \cup (IF g \in GoalTexts THEN {g} ELSE {})

----------------------------------------------------------------------------
(* list(set(ids)) as CPython builds and walks a set of small ints:
   a table of slots, a key's first slot is hash & mask, hash(i) = i *)

EmptySlot == -1
LINEAR_PROBES == 9
PERTURB_SHIFT == 5
PySet_MINSIZE == 8

RECURSIVE Pow2(_)
Pow2(k) == IF k = 0 THEN 1 ELSE 2 * Pow2(k - 1)

SetMin(S) == CHOOSE x \in S : \A y \in S : x <= y
SetMax(S) == CHOOSE x \in S : \A y \in S : y <= x

\* the slot where key is, or where it is put
RECURSIVE ProbeSlot(_, _, _, _, _)
ProbeSlot(table, mask, key, i, perturb) ==
    LET probes == IF i + LINEAR_PROBES <= mask THEN LINEAR_PROBES ELSE 0
        hit == {j \in i..(i + probes) : table[j] = EmptySlot \/ table[j] = key}
    IN  IF hit # {} THEN SetMin(hit)
        ELSE LET p == perturb \div Pow2(PERTURB_SHIFT)
             IN  ProbeSlot(table, mask, key, (i * 5 + 1 + p) % (mask + 1), p)

TableInsert(table, mask, key) ==
    [table EXCEPT ![ProbeSlot(table, mask, key, key % (mask + 1), key)] = key]

RECURSIVE GrowSize(_, _)
GrowSize(newsize, minused) ==
    IF newsize <= minused THEN GrowSize(2 * newsize, minused) ELSE newsize

RECURSIVE Reinsert(_, _, _, _)
Reinsert(old, j, table, mask) ==
    IF j \notin DOMAIN old THEN table
    ELSE Reinsert(old, j + 1,
                  IF old[j] = EmptySlot THEN table ELSE TableInsert(table, mask, old[j]),
                  mask)

\* set_table_resize
Resized(st) ==
    LET size == GrowSize(PySet_MINSIZE, st.used * 4)
        empty == [j \in 0..(size - 1) |-> EmptySlot]
    IN  [table |-> Reinsert(st.table, 0, empty, size - 1), mask |-> size - 1,
         used |-> st.used]

\* set_add_entry
SetAdd(st, key) ==
    LET slot == ProbeSlot(st.table, st.mask, key, key % (st.mask + 1), key)
    IN  IF st.table[slot] = key THEN st
        ELSE LET put == [st EXCEPT !.table[slot] = key, !.used = @ + 1]
             IN  IF put.used * 5 < put.mask * 3 THEN put ELSE Resized(put)

RECURSIVE SetFromList(_, _, _)
SetFromList(s, k, st) ==
    IF k > Len(s) THEN st ELSE SetFromList(s, k + 1, SetAdd(st, s[k]))

RECURSIVE TableKeys(_, _)
TableKeys(table, j) ==
    IF j \notin DOMAIN table THEN <<>>
    ELSE (IF table[j] = EmptySlot THEN <<>> ELSE <<table[j]>>) \o TableKeys(table, j + 1)

\* a mutant of PyListOfSet: duplicates are kept
PyListKeepDuplicates(s) == s

\* list(set(s)) for a list s of non-negative ints
PyListOfSet(s) ==
    LET empty == [table |-> [j \in 0..(PySet_MINSIZE - 1) |-> EmptySlot],
                  mask |-> PySet_MINSIZE - 1, used |-> 0]
    IN  TableKeys(SetFromList(s, 1, empty).table, 0)

----------------------------------------------------------------------------
(* retrieve.py: scoring and ranking *)

RECURSIVE RPow(_, _, _)
RPow(n, d, k) == IF k = 0 THEN One ELSE RMul(Rat(n, d), RPow(n, d, k - 1))

\* retrieve.py:96-113
calculate_node_recency(obs, ids) ==
    LET latest_node == num_observations(obs)
        recency == [k \in DOMAIN ids |-> RPow(GammaNum, GammaDen, latest_node - ids[k])]
    IN  minmax_normalize(recency, Zero, One)

\* retrieve.py:115-128
calculate_node_importance(obs, ids) ==
    LET importances == [k \in DOMAIN ids |-> Node(obs, ids[k]).node_importance]
    IN  minmax_normalize(importances, Zero, One)

\* retrieve.py:130-155.  With a query, similarity to the query alone;
\* without, the largest similarity to the default queries.
calculate_node_relevance(obs, emb, g, ids, query) ==
    LET memory_embeddings == [k \in DOMAIN ids |-> get_embedding(obs, emb, ids[k])]
        relevances ==
            IF query # NoQuery
            THEN [k \in DOMAIN ids |-> Rat(CosSim(memory_embeddings[k], query), 100)]
            ELSE [k \in DOMAIN ids |->
                    Rat(SetMax({CosSim(memory_embeddings[k], q) :
                                    q \in get_query_embeddings(g)}), 100)]
    IN  minmax_normalize(relevances, Zero, One)

RECURSIVE Repeat(_, _)
Repeat(s, k) == IF k <= 0 THEN <<>> ELSE s \o Repeat(s, k - 1)

\* alpha * scores, alpha an int: a Python list is repeated alpha times,
\* a numpy array is multiplied element by element
PyMul(alpha, x) ==
    IF Raised(x) THEN x
    ELSE IF x.kind = "list" THEN [kind |-> "list", vals |-> Repeat(x.vals, alpha)]
    ELSE [kind |-> "array", vals |-> [k \in DOMAIN x.vals |-> RMul(Rat(alpha, 1), x.vals[k])]]

\* a + b: two Python lists are concatenated; with a numpy array on either
\* side the sum is element by element, lengths broadcast
PyAdd(a, b) ==
    IF Raised(a) THEN a
    ELSE IF Raised(b) THEN b
    ELSE IF a.kind = "list" /\ b.kind = "list"
    THEN [kind |-> "list", vals |-> a.vals \o b.vals]
    ELSE IF Len(a.vals) = Len(b.vals)
    THEN [kind |-> "array", vals |-> [k \in DOMAIN a.vals |-> RAdd(a.vals[k], b.vals[k])]]
    ELSE IF Len(a.vals) = 1
    THEN [kind |-> "array", vals |-> [k \in DOMAIN b.vals |-> RAdd(a.vals[1], b.vals[k])]]
    ELSE IF Len(b.vals) = 1
    THEN [kind |-> "array", vals |-> [k \in DOMAIN a.vals |-> RAdd(a.vals[k], b.vals[1])]]
    ELSE [kind |-> "ValueError", vals |-> <<>>]

\* zip(node_ids, list(total_score)): as long as the shorter of the two
PyZip(ids, scores) ==
    LET m == IF Len(ids) <= Len(scores) THEN Len(ids) ELSE Len(scores)
    IN  [k \in 1..m |-> [id |-> ids[k], score |-> scores[k]]]

\* position of the element sorted() puts first: the smallest score, and
\* among equal scores the one that comes first in the input
FirstMin(s) ==
    CHOOSE k \in DOMAIN s :
        \A j \in DOMAIN s : RLt(s[k].score, s[j].score)
                            \/ (s[k].score = s[j].score /\ k <= j)

RemoveAt(s, k) == SubSeq(s, 1, k - 1) \o SubSeq(s, k + 1, Len(s))

\* a mutant of SortedByScore: descending order
RECURSIVE SortedDescending(_)
SortedDescending(s) ==
    IF s = <<>> THEN <<>>
    ELSE LET k == FirstMin(s) IN SortedDescending(RemoveAt(s, k)) \o <<s[k]>>

\* sorted(node_scores, key=lambda x: x[1]): stable, ascending
RECURSIVE SortedByScore(_)
SortedByScore(s) ==
    IF s = <<>> THEN <<>>
    ELSE LET k == FirstMin(s) IN <<s[k]>> \o SortedByScore(RemoveAt(s, k))

\* retrieve.py:90-94: the ids paired with their scores, sorted
RankedBy(ids, total_score) ==
    IF Raised(total_score) THEN [kind |-> total_score.kind, pairs |-> <<>>]
    ELSE [kind |-> "ok", pairs |-> SortedByScore(PyZip(ids, total_score.vals))]

\* retrieve.py:68-94.  kind is "ok" or the exception raised.
rank_nodes(obs, emb, g, ids, query) ==
    RankedBy(ids,
             PyAdd(PyAdd(PyMul(recency_alpha, calculate_node_recency(obs, ids)),
                         PyMul(importance_alpha, calculate_node_importance(obs, ids))),
                   PyMul(relevance_alpha,
                         calculate_node_relevance(obs, emb, g, ids, query))))

----------------------------------------------------------------------------
(* retrieve.py: gathering search keys, candidate lookup, retrieve *)

\* observations[-lookback:]
LastNodes(obs) ==
    IF lookback = 0 \/ lookback >= Len(obs) THEN obs
    ELSE SubSeq(obs, Len(obs) - lookback + 1, Len(obs))

\* retrieve.py:186  prev_round = max(0, game.round - 1)
prev_round(round) == IF round - 1 > 0 THEN round - 1 ELSE 0

\* character.goals.get_goals(round, as_str=True): the goals the character
\* has for the round; "absent" when the character has no goals attribute
get_goals(character_goals, round) ==
    IF ~character_goals.present THEN "absent" ELSE character_goals.of_round[round]

\* a mutant of current_goals: a character without goals is given a goal
GoalsDefaulted(g) == IF g = "absent" THEN "g_ally" ELSE g

\* retrieve.py:187-191: character.goals.get_goals(...); AttributeError when
\* the character has no goals, and then current_goals = None
current_goals(g) == IF g = "absent" THEN "None" ELSE g

\* retrieve.py:176-206.  The union, per category, of the keywords of the
\* last records, of the goals and of the query.
gather_keywords_for_search(obs, g, query) ==
    LET nodes == LastNodes(obs)
        node_kwds == UNION {extract_keywords(nodes[k].node_description) : k \in DOMAIN nodes}
        goal_kwds == IF current_goals(g) \notin {"None", ""}
                     THEN extract_keywords(current_goals(g)) ELSE {}
        query_kwds == IF query # NoQuery THEN extract_keywords(query) ELSE {}
    IN  node_kwds \cup goal_kwds \cup query_kwds

RECURSIVE CollectIds(_, _, _)
CollectIds(kn, keys, k) ==
    IF k > Len(KeywordOrder) THEN <<>>
    ELSE (IF KeywordOrder[k] \in keys THEN kn[KeywordOrder[k]] ELSE <<>>)
         \o CollectIds(kn, keys, k + 1)

\* retrieve.py:157-174
get_relevant_memory_ids(seach_keys, kn) ==
    PyListOfSet(CollectIds(kn, seach_keys, 1))

\* a mutant of TakeLast: the first n are kept
TakeFirst(s, n) == IF n >= Len(s) THEN s ELSE SubSeq(s, 1, n)

\* ranked_memory_ids[-n:]
TakeLast(s, n) == IF n >= Len(s) THEN s ELSE SubSeq(s, Len(s) - n + 1, Len(s))

\* a mutant of EmptyCandidates: an empty list is returned
ReturnEmptyList == [kind |-> "list", items |-> <<>>]

\* retrieve.py:50-51  return None
EmptyCandidates == [kind |-> "None", items |-> <<>>]

\* retrieve.py:56-57  if n > 0: ranked_memory_ids = ranked_memory_ids[-n:]
Limited(pairs, n) == IF n > 0 THEN TakeLast(pairs, n) ELSE pairs

\* retrieve.py:59-66: the string of each ranked memory, with or without
\* its id (idx = -1 when the id is not included)
MemoryStrings(obs, ranked_memory_ids, include_idx) ==
    [k \in DOMAIN ranked_memory_ids |->
        [idx  |-> IF include_idx THEN ranked_memory_ids[k].id ELSE -1,
         desc |-> Node(obs, ranked_memory_ids[k].id).node_description]]

\* retrieve.py:53-66, r what rank_nodes gave
RetrieveRanked(obs, r, n, include_idx) ==
    IF r.kind # "ok" THEN [kind |-> r.kind, items |-> <<>>]
    ELSE [kind |-> "list", items |-> MemoryStrings(obs, Limited(r.pairs, n), include_idx)]

\* retrieve.py:50-66, ids what get_relevant_memory_ids gave
RetrieveFrom(obs, emb, g, query, n, include_idx, ids) ==
    IF Len(ids) = 0 THEN EmptyCandidates
    ELSE RetrieveRanked(obs, rank_nodes(obs, emb, g, ids, query), n, include_idx)

\* retrieve.py:32-66.  kind is "None", "list" or the exception raised.
retrieve(obs, kn, emb, g, query, n, include_idx) ==
    RetrieveFrom(obs, emb, g, query, n, include_idx,
                 get_relevant_memory_ids(gather_keywords_for_search(obs, g, query), kn))

\* the ids whose embeddings a retrieve call asks for
RetrievedIds(obs, kn, g, query) ==
    SeqSet(get_relevant_memory_ids(gather_keywords_for_search(obs, g, query), kn))

\* a mutant of CacheAfterRetrieve: the query's embedding is cached in the
\* place of the memory's
CacheQueryEmbedding(obs, kn, emb, g, query) ==
    [i \in DOMAIN emb |->
        IF (i - 1) \in RetrievedIds(obs, kn, g, query) /\ query # NoQuery
        THEN query ELSE emb[i]]

\* retrieve.py:141: get_embedding is called for every candidate id, which
\* caches the embeddings not yet computed
CacheAfterRetrieve(obs, kn, emb, g, query) ==
    CacheAfterGet(obs, emb, RetrievedIds(obs, kn, g, query))

----------------------------------------------------------------------------
(* The memory stream's operations (agent/memory_stream.py) *)

NewNode(desc, imp, type, round, tick) ==
    [node_description |-> desc, node_importance |-> imp, node_type |-> type,
     node_round |-> round, node_tick |-> tick]

\* the ascending list of the members of a set of ints
RECURSIVE SortedSeq(_)
SortedSeq(S) == IF S = {} THEN <<>> ELSE <<SetMin(S)>> \o SortedSeq(S \ {SetMin(S)})

\* add_memory: the record is appended with the next id, and the id is added
\* to the index under each keyword given with it
AddedNodes(obs, node) == Append(obs, node)
AddedIndex(obs, kn, keywords) ==
    [k \in AllKeywords |-> IF k \in keywords THEN Append(kn[k], Len(obs)) ELSE kn[k]]
AddedCache(emb) == Append(emb, NoEmbedding)

\* the index of a log built by add_memory alone, each record added with
\* the keywords extracted from its description
IndexOf(obs) ==
    [k \in AllKeywords |->
        SortedSeq({i \in Ids(obs) : k \in extract_keywords(Node(obs, i).node_description)})]

----------------------------------------------------------------------------
(* reflect.py: the consolidation cycle (generalize) *)

\* how many memories each probe query retrieves (reflect.py:114)
memories_per_retrieval == 25

\* reflect.py:48
REFLECTION_RETRIES == 5

\* the count of generate calls for one batch is kept up to this number
MaxCalls == REFLECTION_RETRIES + 1

\* tokens of the string of one memory under the tokenizer
MemoryTokens(it) == DescTokens(it.desc)

RECURSIVE Digits(_)
Digits(i) == IF i < 10 THEN 1 ELSE 1 + Digits(i \div 10)

\* len(f"{id}. {description}")
ItemLen(it) == Digits(it.idx) + 2 + DescLen(it.desc)

RECURSIVE SumTokens(_)
SumTokens(s) == IF s = <<>> THEN 0 ELSE MemoryTokens(Head(s)) + SumTokens(Tail(s))

\* get_prompt_token_count(content=list, role=None, pad_reply=False)
get_prompt_token_count(s) == SumTokens(s)

\* limit_context_length(history, max_tokens, keep_most_recent=False): the
\* longest prefix whose tokens fit
RECURSIVE limit_context_length(_, _)
limit_context_length(history, max_tokens) ==
    IF history = <<>> \/ MemoryTokens(Head(history)) > max_tokens THEN <<>>
    ELSE <<Head(history)>>
         \o limit_context_length(Tail(history), max_tokens - MemoryTokens(Head(history)))

\* reflect.py:138-146: the results of the probe queries, in order
ProbeResults(obs, kn, emb, g) ==
    [q \in DOMAIN memory_query_questions |->
        retrieve(obs, kn, emb, g, memory_query_questions[q], memories_per_retrieval, TRUE)]

\* the embedding cache after every probe query
RECURSIVE CacheAfterProbes(_, _, _, _, _)
CacheAfterProbes(obs, kn, emb, g, q) ==
    IF q > Len(memory_query_questions) THEN emb
    ELSE CacheAfterProbes(obs, kn,
            CacheAfterRetrieve(obs, kn, emb, g, memory_query_questions[q]), g, q + 1)

\* reflect.py:148-150: list(set(relevant_memories)) walks the strings in an
\* order the language does not fix; sort(key=len) is stable on top of it
SortedPools(S) ==
    {p \in [1..Cardinality(S) -> S] :
        /\ \A i, j \in DOMAIN p : i # j => p[i] # p[j]
        /\ \A i, j \in DOMAIN p : i < j => ItemLen(p[i]) <= ItemLen(p[j])}

\* character.memory.get_observation_type(idx); "None" for no such node
get_observation_type(obs, idx) ==
    IF idx \in Ids(obs) THEN Node(obs, idx).node_type ELSE "None"

\* relevant_memories_primer[2], 'None\n'
NonePrimer == [idx |-> -1, desc |-> "None"]

\* no prompt was built
NoPrompt == [reflections |-> <<>>, memories |-> <<>>]

\* memory_desc of a memory string: the text after the id
StripIdx(it) == [idx |-> -1, desc |-> it.desc]

\* reflect.py:205-215: the memory strings of the batch's reflections, and
\* the descriptions of its other records
reflections_lmtd(obs, batch) ==
    SelectSeq(batch, LAMBDA it : get_observation_type(obs, it.idx) = MemoryType_REFLECTION)
observations_lmtd(obs, batch) ==
    LET others == SelectSeq(batch, LAMBDA it :
                      get_observation_type(obs, it.idx) # MemoryType_REFLECTION)
    IN  [k \in DOMAIN others |-> StripIdx(others[k])]

\* a mutant of OrNone: an empty section stays empty
AsItIs(section) == section

\* reflect.py:218-221: if not section: section = [relevant_memories_primer[2]]
OrNone(section) == IF section = <<>> THEN <<NonePrimer>> ELSE section

\* reflect.py:205-225: the sections of user_prompt_list that hold the batch
UserPrompt(obs, batch) ==
    [reflections |-> OrNone(reflections_lmtd(obs, batch)),
     memories    |-> OrNone(observations_lmtd(obs, batch))]

\* a mutant of PoolMinus: the pool is left as it was
PoolKept(pool, batch) == pool

\* OrderedSet(relevant_memories) - OrderedSet(relevant_memories_limited)
PoolMinus(pool, batch) == SelectSeq(pool, LAMBDA it : it \notin SeqSet(batch))

----------------------------------------------------------------------------
(* Items of a summarizer response *)

Missing == "missing"

\* the statements a response carries
Statements == {"axe", "camp"}

\* what gpt_get_action_importance gives for a statement
ScoredImportances == {Rat(1, 1), Rat(2, 1)}

NoIndex      == [kind |-> "absent", val |-> 0]
BadIndex     == [kind |-> "bad", val |-> 0]
IntIndex(i)  == [kind |-> "int", val |-> i]

\* an element of the `new` list: an object with or without a statement, or
\* something that is no object
NewItems ==
    {[shape |-> "object", index |-> NoIndex, statement |-> s] : s \in Statements \cup {Missing}}
    \cup {[shape |-> "other", index |-> NoIndex, statement |-> Missing]}

\* an element of the `updated` list
UpdatedItems(obs) ==
    {[shape |-> "object", index |-> ix, statement |-> s] :
        ix \in {NoIndex, BadIndex} \cup {IntIndex(i) : i \in (-1)..Len(obs)},
        s \in Statements \cup {Missing}}
    \cup {[shape |-> "other", index |-> NoIndex, statement |-> Missing]}

NoItem == [shape |-> "none", index |-> NoIndex, statement |-> Missing]

----------------------------------------------------------------------------
(* reflect.py: folding a response into the memory *)

\* game.round and game.tick while the cycle runs; the log's earlier records
\* were made at round 0, tick 0
game_round == 1
game_tick  == 1

\* no game is running: the round of the cycle, a character without goals
NoGame == [round |-> game_round, goals |-> [present |-> FALSE, of_round |-> <<>>]]

Store(obs, kn, emb, err) == [obs |-> obs, kn |-> kn, emb |-> emb, err |-> err]

\* a mutant of AddReflection: the record is added with the type ACTION
AddAction(obs, kn, emb, desc, imp) ==
    Store(AddedNodes(obs, NewNode(desc, imp, MemoryType_ACTION, game_round, game_tick)),
          AddedIndex(obs, kn, extract_keywords(desc)),
          AddedCache(emb), "ok")

\* memory.add_memory(round, tick, desc, keywords, ..., memory_type=REFLECTION)
AddReflection(obs, kn, emb, desc, imp) ==
    Store(AddedNodes(obs, NewNode(desc, imp, MemoryType_REFLECTION, game_round, game_tick)),
          AddedIndex(obs, kn, extract_keywords(desc)),
          AddedCache(emb), "ok")

\* reflect.py:277-298.  A missing statement is skipped (KeyError); an item
\* that is no object raises TypeError, which nothing catches.
add_new_generalization_helper(obs, kn, emb, generalization, imp) ==
    IF generalization.shape # "object" THEN Store(obs, kn, emb, "TypeError")
    ELSE IF generalization.statement = Missing THEN Store(obs, kn, emb, "ok")
    ELSE AddReflection(obs, kn, emb, generalization.statement, imp)

\* a mutant of update_node_embedding: the embedding is left as it was
StaleEmbedding(emb, id, statement) == emb

\* reflect.py:356-357: memory.update_node_embedding(node_id, new_description)
update_node_embedding(emb, id, statement) == [emb EXCEPT ![id + 1] = statement]

\* memory.update_node(node_id, node_round, node_tick, node_description)
\* followed by memory.update_node_embedding(node_id, new_description)
UpdateNode(obs, kn, emb, id, statement) ==
    IF id \notin Ids(obs) THEN Store(obs, kn, emb, "NotFound")
    ELSE Store([obs EXCEPT ![id + 1].node_description = statement,
                           ![id + 1].node_round = game_round,
                           ![id + 1].node_tick = game_tick],
               kn,
               update_node_embedding(emb, id, statement),
               "ok")

\* a mutant of NonReflectionTarget: the target is overwritten whatever its type
OverwriteAnyTarget(obs, kn, emb, ref, imp) ==
    UpdateNode(obs, kn, emb, ref.index.val, ref.statement)

\* reflect.py:348-350: the target is no reflection, a new reflection is made
NonReflectionTarget(obs, kn, emb, ref, imp) ==
    add_new_generalization_helper(obs, kn, emb, ref, imp)

\* a mutant of MalformedIndex: the item is dropped
DropItem(obs, kn, emb, ref, imp) == Store(obs, kn, emb, "ok")

\* reflect.py:340-344: no index that int() takes, or no statement; the item
\* is handed to add_new_generalization_helper
MalformedIndex(obs, kn, emb, ref, imp) ==
    add_new_generalization_helper(obs, kn, emb, ref, imp)

\* reflect.py:337-357: one element of the `updated` list
update_existing_generalization(obs, kn, emb, ref, imp) ==
    IF ref.shape # "object" \/ ref.index.kind # "int" \/ ref.statement = Missing
    THEN \* KeyError, ValueError or TypeError at lines 338-339
         MalformedIndex(obs, kn, emb, ref, imp)
    ELSE LET memory_type == get_observation_type(obs, ref.index.val)
         IN  IF memory_type # "None" /\ memory_type # MemoryType_REFLECTION
             THEN NonReflectionTarget(obs, kn, emb, ref, imp)
             ELSE UpdateNode(obs, kn, emb, ref.index.val, ref.statement)

----------------------------------------------------------------------------
(* NormSpec: minmax_normalize(values, 0, 1) on every bounded list *)

Values == {NoneVal} \cup {Rat(v, 1) : v \in 0..MaxVal}

SeqsUpTo(S, n) == UNION {[1..k -> S] : k \in 0..n}

NoOut == [kind |-> "none", vals |-> <<>>]
NoResult == [kind |-> "none", items |-> <<>>]
NoArgs == [query |-> NoQuery, n |-> 0, include_idx |-> FALSE]

NormInit ==
    /\ lst \in SeqsUpTo(Values, MaxLen) \ {<<>>}
    /\ norm_out = NoOut
    /\ norm_pc = "in"
    /\ observations = <<>> /\ keyword_nodes = <<>> /\ embeddings = <<>>
    /\ goals = "absent"
    /\ memory_ids = <<>> /\ node_ids = <<>> /\ rank_query = NoQuery
    /\ ranked = [kind |-> "none", pairs |-> <<>>] /\ rank_pc = "off"
    /\ ret_args = NoArgs /\ memories = NoResult /\ memories2 = NoResult
    /\ retrieval_kwds = {}
    /\ ret_pc = "off"
    /\ pc = "off" /\ relevant_memories = <<>> /\ relevant_memories_limited = <<>>
    /\ available_tokens = 0 /\ gpt_calls = 0 /\ response = "none" /\ batches = 0 /\ sent = {}
    /\ user_prompt_list = NoPrompt /\ game = NoGame
    /\ ExtIdle
    /\ item = NoItem /\ items_seen = 0 /\ error = "none" /\ observations0 = <<>>

Normalize ==
    /\ norm_pc = "in"
    /\ norm_out' = minmax_normalize(lst, Zero, One)
    /\ norm_pc' = "out"
    /\ UNCHANGED <<lst, store_vars, rank_vars, retr_vars, cycle_vars, ext_vars>>

NormNext == Normalize

NormSpec == NormInit /\ [][NormNext]_vars

----------------------------------------------------------------------------
(* RankSpec: get_relevant_memory_ids and rank_nodes on a log of
   MaxRankId + 1 records whose keyword index names up to two of them *)

ImpValues == {Rat(v, 1) : v \in 0..MaxImp}

DefaultNode ==
    [node_description |-> "camp", node_importance |-> Zero,
     node_type |-> MemoryType_ACTION, node_round |-> 0, node_tick |-> 0]

\* an index list of at most one id
OneIdLists == {<<>>} \cup {<<i>> : i \in 0..MaxRankId}

RankInit ==
    /\ \E a, b \in OneIdLists :
          /\ keyword_nodes = [k \in AllKeywords |->
                                IF k = KeywordOrder[1] THEN a
                                ELSE IF k = KeywordOrder[2] THEN b ELSE <<>>]
          /\ LET cand == {a[k] : k \in DOMAIN a} \cup {b[k] : k \in DOMAIN b}
             IN  \E f \in [cand -> Descs \X ImpValues] :
                    observations = [i \in 1..(MaxRankId + 1) |->
                        IF (i - 1) \in cand
                        THEN [DefaultNode EXCEPT !.node_description = f[i - 1][1],
                                                 !.node_importance = f[i - 1][2]]
                        ELSE DefaultNode]
    /\ embeddings = [i \in 1..(MaxRankId + 1) |-> NoEmbedding]
    /\ goals = "absent"
    /\ rank_query \in Queries
    /\ memory_ids = <<>>
    /\ node_ids = <<>>
    /\ ranked = [kind |-> "none", pairs |-> <<>>]
    /\ rank_pc = "collect"
    /\ lst = <<>> /\ norm_out = NoOut /\ norm_pc = "off"
    /\ ret_args = NoArgs /\ memories = NoResult /\ memories2 = NoResult
    /\ retrieval_kwds = {}
    /\ ret_pc = "off"
    /\ pc = "off" /\ relevant_memories = <<>> /\ relevant_memories_limited = <<>>
    /\ available_tokens = 0 /\ gpt_calls = 0 /\ response = "none" /\ batches = 0 /\ sent = {}
    /\ user_prompt_list = NoPrompt /\ game = NoGame
    /\ ExtIdle
    /\ item = NoItem /\ items_seen = 0 /\ error = "none" /\ observations0 = <<>>

\* retrieve.py:168-174 with every keyword among the search keys
RankCollect ==
    /\ rank_pc = "collect"
    /\ memory_ids' = CollectIds(keyword_nodes, AllKeywords, 1)
    /\ node_ids' = get_relevant_memory_ids(AllKeywords, keyword_nodes)
    /\ rank_pc' = IF Len(node_ids') = 0 THEN "empty" ELSE "rank"
    /\ UNCHANGED <<rank_query, ranked, norm_vars, store_vars, retr_vars, cycle_vars, ext_vars>>

\* retrieve.py:54
RankNodes ==
    /\ rank_pc = "rank"
    /\ ranked' = rank_nodes(observations, embeddings, goals, node_ids, rank_query)
    /\ embeddings' = CacheAfterGet(observations, embeddings,
                                   {node_ids[k] : k \in DOMAIN node_ids})
    /\ rank_pc' = "done"
    /\ UNCHANGED <<memory_ids, node_ids, rank_query, norm_vars,
                   observations, keyword_nodes, goals, retr_vars, cycle_vars, ext_vars>>

RankNext == RankCollect \/ RankNodes

RankSpec == RankInit /\ [][RankNext]_vars

----------------------------------------------------------------------------
(* RetrieveSpec: retrieve called twice with the same arguments on a log
   of up to MaxRetrStore records *)

\* the importance of a record: a score, or None when none was given
RetrImportances == {Zero, One, NoneVal}

RetrNodes ==
    {NewNode(d, imp, MemoryType_ACTION, 0, 0) : d \in Descs, imp \in RetrImportances}

RetrInit ==
    /\ observations \in SeqsUpTo(RetrNodes, MaxRetrStore)
    /\ keyword_nodes = IndexOf(observations)
    /\ embeddings = [i \in DOMAIN observations |-> NoEmbedding]
    /\ goals \in {"absent", "g_win"}
    /\ ret_args = NoArgs
    /\ memories = NoResult
    /\ memories2 = NoResult
    /\ retrieval_kwds = {}
    /\ ret_pc = "call"
    /\ lst = <<>> /\ norm_out = NoOut /\ norm_pc = "off"
    /\ memory_ids = <<>> /\ node_ids = <<>> /\ rank_query = NoQuery
    /\ ranked = [kind |-> "none", pairs |-> <<>>] /\ rank_pc = "off"
    /\ pc = "off" /\ relevant_memories = <<>> /\ relevant_memories_limited = <<>>
    /\ available_tokens = 0 /\ gpt_calls = 0 /\ response = "none" /\ batches = 0 /\ sent = {}
    /\ user_prompt_list = NoPrompt /\ game = NoGame
    /\ ExtIdle
    /\ item = NoItem /\ items_seen = 0 /\ error = "none" /\ observations0 = <<>>

\* retrieve(game, character, query, n, include_idx)
Retrieve ==
    /\ ret_pc = "call"
    /\ \E q \in Queries, n \in (-1)..MaxK, idx \in BOOLEAN :
          /\ ret_args' = [query |-> q, n |-> n, include_idx |-> idx]
          /\ retrieval_kwds' = gather_keywords_for_search(observations, goals, q)
          /\ memories' = retrieve(observations, keyword_nodes, embeddings, goals, q, n, idx)
          /\ embeddings' = CacheAfterRetrieve(observations, keyword_nodes, embeddings, goals, q)
    /\ ret_pc' = "again"
    /\ UNCHANGED <<observations, keyword_nodes, goals, memories2, norm_vars, rank_vars,
                   cycle_vars, ext_vars>>

\* the same call once more, on the state the first call left
RetrieveAgain ==
    /\ ret_pc = "again"
    /\ retrieval_kwds' = gather_keywords_for_search(observations, goals, ret_args.query)
    /\ memories2' = retrieve(observations, keyword_nodes, embeddings, goals,
                             ret_args.query, ret_args.n, ret_args.include_idx)
    /\ embeddings' = CacheAfterRetrieve(observations, keyword_nodes, embeddings, goals,
                                        ret_args.query)
    /\ ret_pc' = "done"
    /\ UNCHANGED <<observations, keyword_nodes, goals, ret_args, memories,
                   norm_vars, rank_vars, cycle_vars, ext_vars>>

RetrNext == Retrieve \/ RetrieveAgain

RetrieveSpec == RetrInit /\ [][RetrNext]_vars

----------------------------------------------------------------------------
(* ScenarioSpec: one retrieve call on a log of ScenRecords records that all
   carry the keyword <<"objects", "axe">> *)

ScenRecords == 3

ScenDescs == {d \in Descs : <<"objects", "axe">> \in extract_keywords(d)}

ScenImportances == {Rat(1, 1), Rat(5, 1), Rat(9, 1)}

ScenNodes ==
    {NewNode(d, imp, MemoryType_ACTION, 0, 0) : d \in ScenDescs, imp \in ScenImportances}

ScenQueries == Queries \cup ScenDescs

\* the limits n the call is made with: one memory, or up to two
ScenLimits == {1, 2}

ScenInit ==
    /\ observations \in [1..ScenRecords -> ScenNodes]
    /\ keyword_nodes = IndexOf(observations)
    /\ embeddings = [i \in DOMAIN observations |-> NoEmbedding]
    /\ goals \in {"absent", ""} \cup GoalTexts
    /\ ret_args = NoArgs
    /\ memories = NoResult
    /\ memories2 = NoResult
    /\ retrieval_kwds = {}
    /\ ret_pc = "scenario"
    /\ lst = <<>> /\ norm_out = NoOut /\ norm_pc = "off"
    /\ memory_ids = <<>> /\ node_ids = <<>> /\ rank_query = NoQuery
    /\ ranked = [kind |-> "none", pairs |-> <<>>] /\ rank_pc = "off"
    /\ pc = "off" /\ relevant_memories = <<>> /\ relevant_memories_limited = <<>>
    /\ available_tokens = 0 /\ gpt_calls = 0 /\ response = "none" /\ batches = 0 /\ sent = {}
    /\ user_prompt_list = NoPrompt /\ game = NoGame
    /\ ExtIdle
    /\ item = NoItem /\ items_seen = 0 /\ error = "none" /\ observations0 = <<>>

\* retrieve(game, character, query, n, include_idx)
ScenarioRetrieve ==
    /\ ret_pc = "scenario"
    /\ \E q \in ScenQueries, n \in ScenLimits, idx \in BOOLEAN :
          /\ ret_args' = [query |-> q, n |-> n, include_idx |-> idx]
          /\ retrieval_kwds' = gather_keywords_for_search(observations, goals, q)
          /\ memories' = retrieve(observations, keyword_nodes, embeddings, goals, q, n, idx)
          /\ embeddings' = CacheAfterRetrieve(observations, keyword_nodes, embeddings, goals, q)
    /\ ret_pc' = "returned"
    /\ UNCHANGED <<observations, keyword_nodes, goals, memories2, norm_vars, rank_vars,
                   cycle_vars, ext_vars>>

ScenNext == ScenarioRetrieve

ScenarioSpec == ScenInit /\ [][ScenNext]_vars

----------------------------------------------------------------------------
(* Spec: one reflection cycle on a log of up to MaxStore records *)

\* the log before the cycle: importance only enters the ranking of
\* retrieve, whose order the cycle discards
InitNodes == {NewNode(d, Zero, t, 0, 0) : d \in Descs, t \in MemoryTypes}

UnparseableTexts == {"garbage_a", "garbage_b"}

Init ==
    /\ observations \in SeqsUpTo(InitNodes, MaxStore)
    /\ keyword_nodes = IndexOf(observations)
    /\ embeddings = [i \in DOMAIN observations |-> NoEmbedding]
    /\ goals \in {"absent", "g_win"}
    /\ pc = "idle"
    /\ relevant_memories = <<>>
    /\ relevant_memories_limited = <<>>
    /\ available_tokens = 0
    /\ gpt_calls = 0
    /\ response = "none"
    /\ batches = 0
    /\ sent = {} /\ user_prompt_list = NoPrompt /\ game = NoGame
    /\ ExtIdle
    /\ item = NoItem
    /\ items_seen = 0
    /\ error = "none"
    /\ observations0 = observations
    /\ memories = NoResult
    /\ lst = <<>> /\ norm_out = NoOut /\ norm_pc = "off"
    /\ memory_ids = <<>> /\ node_ids = <<>> /\ rank_query = NoQuery
    /\ ranked = [kind |-> "none", pairs |-> <<>>] /\ rank_pc = "off"
    /\ ret_args = NoArgs /\ memories2 = NoResult /\ retrieval_kwds = {} /\ ret_pc = "off"

other_vars == <<norm_vars, rank_vars, ret_args, memories2, retrieval_kwds, ret_pc>>

\* a probe query gave no list
ProbeFailed(results) == \E q \in DOMAIN results : results[q].kind # "list"

\* the first probe result that is no list, or the last result
FirstFailure(results) ==
    IF ProbeFailed(results)
    THEN results[SetMin({q \in DOMAIN results : results[q].kind # "list"})]
    ELSE results[Len(results)]

\* reflect.py:146-150: the pools the probe results can make; none when
\* relevant_memories.extend(None) raises TypeError
GatheredPools(results) ==
    IF ProbeFailed(results) THEN {<<>>}
    ELSE SortedPools(UNION {SeqSet(results[q].items) : q \in DOMAIN results})

\* reflect.py:99-181: the static part of the prompt is measured, the token
\* budget computed, and the pool gathered from the probe queries
GeneralizeSetup ==
    /\ pc = "idle"
    /\ \E budget \in 0..MaxB :
          available_tokens' = budget
    /\ \E pool \in GatheredPools(ProbeResults(observations, keyword_nodes, embeddings, goals)) :
          relevant_memories' = pool
    /\ memories' = FirstFailure(ProbeResults(observations, keyword_nodes, embeddings, goals))
    /\ pc' = IF memories'.kind # "list" THEN "error" ELSE "loop"
    /\ error' = IF memories'.kind # "list" THEN "TypeError" ELSE "none"
    /\ embeddings' = CacheAfterProbes(observations, keyword_nodes, embeddings, goals, 1)
    /\ observations0' = observations
    /\ UNCHANGED <<observations, keyword_nodes, goals, relevant_memories_limited,
                   gpt_calls, response, batches, sent, user_prompt_list, game, ext_vars, item,
                   items_seen, other_vars>>

\* reflect.py:185: the pool holds no token, the loop ends
LoopExit ==
    /\ pc = "loop"
    /\ get_prompt_token_count(relevant_memories) <= 0
    /\ pc' = "done"
    /\ UNCHANGED <<store_vars, relevant_memories, relevant_memories_limited,
                   available_tokens, gpt_calls, response, batches, sent, user_prompt_list, game,
                   ext_vars, item, items_seen,
                   error, observations0, memories, other_vars>>

\* a mutant of NoMemoryFits: the loop is never left with an empty batch
NeverLeaves(batch) == FALSE

\* reflect.py:198-199: if len(relevant_memories_limited) <= 0: break
NoMemoryFits(batch) == Len(batch) <= 0

\* a mutant of LimitedBatch: the whole pool is the batch
WholePool(pool, max_tokens) == pool

\* reflect.py:189-192: the batch is what fits the budget, from the front of
\* the pool (keep_most_recent=False)
LimitedBatch(pool, max_tokens) == limit_context_length(pool, max_tokens)

\* reflect.py:185-229: the batch is cut from the front of the pool; with no
\* memory small enough the loop is left
LoopBatch ==
    /\ pc = "loop"
    /\ get_prompt_token_count(relevant_memories) > 0
    /\ relevant_memories_limited' = LimitedBatch(relevant_memories, available_tokens)
    /\ pc' = IF NoMemoryFits(relevant_memories_limited') THEN "aborted" ELSE "generate"
    /\ gpt_calls' = 0
    /\ sent' = sent \cup {relevant_memories_limited'[k].idx :
                               k \in DOMAIN relevant_memories_limited'}
    /\ user_prompt_list' = IF NoMemoryFits(relevant_memories_limited') THEN user_prompt_list
                           ELSE UserPrompt(observations, relevant_memories_limited')
    /\ UNCHANGED <<store_vars, relevant_memories, available_tokens, response, batches, game, ext_vars,
                   item, items_seen, error, observations0, memories, other_vars>>

CountCall == gpt_calls' = Min2(gpt_calls + 1, MaxCalls)

\* a mutant of AfterDecodeError: the batch is given up
BatchDropped(pool, batch) == PoolMinus(pool, batch)

\* reflect.py:243-244: except json.JSONDecodeError: continue; the pool is
\* the one the batch was cut from
AfterDecodeError(pool, batch) == pool

\* reflect.py:235-244: the response is no JSON; the call is made again
GenerateUnparseable ==
    /\ pc = "generate"
    /\ \E text \in UnparseableTexts : response' = text
    /\ CountCall
    /\ relevant_memories' = AfterDecodeError(relevant_memories, relevant_memories_limited)
    /\ UNCHANGED <<pc, store_vars, relevant_memories_limited,
                   available_tokens, batches, sent, user_prompt_list, game, ext_vars, item,
                   items_seen, error, observations0,
                   memories, other_vars>>

\* a mutant of LogAtError: the log of the cycle's start is restored
RolledBack(obs, obs0) == obs0

\* reflect.py:235-238: nothing catches the exception of generate and
\* nothing is undone; the log is the one the earlier batches left
LogAtError(obs, obs0) == obs

\* gpt_handler.generate gives up after max_retries: the error leaves generalize
GenerateFails ==
    /\ pc = "generate"
    /\ response' = "RequestError"
    /\ CountCall
    /\ pc' = "error"
    /\ error' = "RequestError"
    /\ observations' = LogAtError(observations, observations0)
    /\ UNCHANGED <<keyword_nodes, embeddings, goals, relevant_memories,
                   relevant_memories_limited,
                   available_tokens, batches, sent, user_prompt_list, game, ext_vars, item,
                   items_seen, observations0,
                   memories, other_vars>>

\* gpt_handler.generate returns (False, token_difference) when the prompt
\* exceeds the model's limit (act.py:77-79); json.loads of a tuple raises
\* TypeError, which line 243 does not catch
GenerateOverLimit ==
    /\ pc = "generate"
    /\ response' = "over_limit_tuple"
    /\ CountCall
    /\ pc' = "error"
    /\ error' = "TypeError"
    /\ UNCHANGED <<store_vars, relevant_memories, relevant_memories_limited,
                   available_tokens, batches, sent, user_prompt_list, game, ext_vars, item,
                   items_seen, observations0,
                   memories, other_vars>>

\* reflect.py:241-248: the response parses and the retry loop is left; the
\* `new` list of the response is folded first
GenerateParsed ==
    /\ pc = "generate"
    /\ response' = "json"
    /\ gpt_calls' = 0
    /\ pc' = "fold_new"
    /\ items_seen' = 0
    /\ item' = NoItem
    /\ UNCHANGED <<store_vars, relevant_memories, relevant_memories_limited,
                   available_tokens, batches, sent, user_prompt_list, game, ext_vars, error,
                   observations0, memories, other_vars>>

Folded(st) ==
    /\ observations' = st.obs
    /\ keyword_nodes' = st.kn
    /\ embeddings' = st.emb
    /\ error' = IF st.err = "ok" THEN error ELSE st.err
    /\ pc' = IF st.err = "ok" THEN pc ELSE "error"

\* reflect.py:316-319: the next element of generalizations["new"]
FoldNew ==
    /\ pc = "fold_new"
    /\ items_seen < MaxItems
    /\ \E ref \in NewItems, imp \in ScoredImportances :
          /\ (ref.shape = "object" /\ ref.statement # Missing) => Len(observations) < MaxStore
          /\ item' = ref
          /\ Folded(add_new_generalization_helper(observations, keyword_nodes, embeddings,
                                                  ref, imp))
    /\ items_seen' = items_seen + 1
    /\ UNCHANGED <<goals, relevant_memories, relevant_memories_limited, available_tokens,
                   gpt_calls, response, batches, sent, user_prompt_list, game, ext_vars,
                   observations0, memories, other_vars>>

\* reflect.py:310-316: generalizations["new"] is absent (KeyError, TypeError)
\* or its elements are exhausted; generalizations["updated"] is next
EndNew ==
    /\ pc = "fold_new"
    /\ pc' = "fold_updated"
    /\ items_seen' = 0
    /\ item' = NoItem
    /\ UNCHANGED <<store_vars, relevant_memories, relevant_memories_limited,
                   available_tokens, gpt_calls, response, batches, sent, user_prompt_list, game,
                   ext_vars, error, observations0,
                   memories, other_vars>>

\* reflect.py:316 / 336: the value is a number or null, `for ref in` raises
FoldNotIterable ==
    /\ pc \in {"fold_new", "fold_updated"}
    /\ items_seen = 0
    /\ pc' = "error"
    /\ error' = "TypeError"
    /\ item' = NoItem
    /\ UNCHANGED <<store_vars, relevant_memories, relevant_memories_limited,
                   available_tokens, gpt_calls, response, batches, sent, user_prompt_list, game,
                   ext_vars, items_seen,
                   observations0, memories, other_vars>>

\* reflect.py:336-357: the next element of generalizations["updated"]
FoldUpdated ==
    /\ pc = "fold_updated"
    /\ items_seen < MaxItems
    /\ \E ref \in UpdatedItems(observations), imp \in ScoredImportances :
          /\ LET st == update_existing_generalization(observations, keyword_nodes,
                                                      embeddings, ref, imp)
             IN  /\ Len(st.obs) <= MaxStore
                 /\ Folded(st)
          /\ item' = ref
    /\ items_seen' = items_seen + 1
    /\ UNCHANGED <<goals, relevant_memories, relevant_memories_limited, available_tokens,
                   gpt_calls, response, batches, sent, user_prompt_list, game, ext_vars,
                   observations0, memories, other_vars>>

\* reflect.py:250-255: the batch leaves the pool and the loop test is next
EndUpdated ==
    /\ pc = "fold_updated"
    /\ relevant_memories' = PoolMinus(relevant_memories, relevant_memories_limited)
    /\ batches' = Min2(batches + 1, MaxStore)
    /\ pc' = "loop"
    /\ items_seen' = 0
    /\ item' = NoItem
    /\ UNCHANGED <<store_vars, relevant_memories_limited, available_tokens, gpt_calls,
                   response, sent, user_prompt_list, game, ext_vars, error, observations0, memories,
                   other_vars>>

Next ==
    \/ GeneralizeSetup
    \/ LoopExit
    \/ LoopBatch
    \/ GenerateUnparseable
    \/ GenerateFails
    \/ GenerateOverLimit
    \/ GenerateParsed
    \/ FoldNew
    \/ EndNew
    \/ FoldNotIterable
    \/ FoldUpdated
    \/ EndUpdated

Spec == Init /\ [][Next]_vars

\* a step of the consolidation loop, reflect.py:185-255
LoopStep ==
    \/ LoopExit
    \/ LoopBatch
    \/ GenerateUnparseable
    \/ GenerateFails
    \/ GenerateOverLimit
    \/ GenerateParsed
    \/ FoldNew
    \/ EndNew
    \/ FoldNotIterable
    \/ FoldUpdated
    \/ EndUpdated

\* once in the loop the interpreter keeps taking its next step
FairSpec == Spec /\ WF_vars(LoopStep)

CycleOver == pc \in {"done", "aborted", "error"}

----------------------------------------------------------------------------
(* KeywordSpec: gather_keywords_for_search in a game of up to MaxRound + 1
   rounds, the character's goals differing from round to round *)

MaxRound == 1

\* the goals a character has: none, or a text (possibly empty) per round
CharacterGoals ==
    {[present |-> FALSE, of_round |-> [r \in 0..MaxRound |-> ""]]}
    \cup {[present |-> TRUE, of_round |-> f] : f \in [0..MaxRound -> GoalTexts \cup {""}]}

KeywordInit ==
    /\ game \in [round : 0..MaxRound, goals : CharacterGoals]
    /\ ExtIdle
    /\ observations \in SeqsUpTo({NewNode(d, Zero, MemoryType_ACTION, 0, 0) : d \in Descs},
                                  lookback + 1)
    /\ keyword_nodes = IndexOf(observations)
    /\ embeddings = [i \in DOMAIN observations |-> NoEmbedding]
    /\ goals = "absent"
    /\ ret_args = NoArgs /\ memories = NoResult /\ memories2 = NoResult
    /\ retrieval_kwds = {} /\ ret_pc = "gather"
    /\ lst = <<>> /\ norm_out = NoOut /\ norm_pc = "off"
    /\ memory_ids = <<>> /\ node_ids = <<>> /\ rank_query = NoQuery
    /\ ranked = [kind |-> "none", pairs |-> <<>>] /\ rank_pc = "off"
    /\ pc = "off" /\ relevant_memories = <<>> /\ relevant_memories_limited = <<>>
    /\ available_tokens = 0 /\ gpt_calls = 0 /\ response = "none" /\ batches = 0
    /\ sent = {} /\ user_prompt_list = NoPrompt
    /\ item = NoItem /\ items_seen = 0 /\ error = "none" /\ observations0 = <<>>

\* retrieve.py:176-206: gather_keywords_for_search(game, character, query)
GatherKeywords ==
    /\ ret_pc = "gather"
    /\ goals' = get_goals(game.goals, prev_round(game.round))
    /\ \E q \in Queries :
          /\ ret_args' = [query |-> q, n |-> -1, include_idx |-> FALSE]
          /\ retrieval_kwds' = gather_keywords_for_search(observations, goals', q)
    /\ ret_pc' = "gathered"
    /\ UNCHANGED <<observations, keyword_nodes, embeddings, memories, memories2, game, ext_vars,
                   norm_vars, rank_vars, pc, relevant_memories, relevant_memories_limited,
                   available_tokens, gpt_calls, response, batches, sent, user_prompt_list,
                   item, items_seen, error, observations0>>

KeywordNext == GatherKeywords

KeywordSpec == KeywordInit /\ [][KeywordNext]_vars

----------------------------------------------------------------------------
(* PoolSpec: reflect.py:148-150 on the list the probe results were extended
   into, for logs whose ids reach MaxPoolId *)

MaxPoolId == 10
MaxPoolLen == 2

\* the strings retrieve returns with include_idx: id and description
PoolItems == {[idx |-> i, desc |-> d] : i \in 0..MaxPoolId, d \in Descs}

\* lists of strings of the records of one log: an id has one description
GatheredLists ==
    {s \in SeqsUpTo(PoolItems, MaxPoolLen) :
        \A i, j \in DOMAIN s : s[i].idx = s[j].idx => s[i].desc = s[j].desc}

PoolInit ==
    /\ relevant_memories \in GatheredLists
    /\ pc = "gathered"
    /\ observations = <<>> /\ keyword_nodes = <<>> /\ embeddings = <<>>
    /\ goals = "absent"
    /\ lst = <<>> /\ norm_out = NoOut /\ norm_pc = "off"
    /\ memory_ids = <<>> /\ node_ids = <<>> /\ rank_query = NoQuery
    /\ ranked = [kind |-> "none", pairs |-> <<>>] /\ rank_pc = "off"
    /\ ret_args = NoArgs /\ memories = NoResult /\ memories2 = NoResult
    /\ retrieval_kwds = {} /\ ret_pc = "off"
    /\ relevant_memories_limited = <<>>
    /\ available_tokens = 0 /\ gpt_calls = 0 /\ response = "none" /\ batches = 0 /\ sent = {}
    /\ user_prompt_list = NoPrompt /\ game = NoGame
    /\ ExtIdle
    /\ item = NoItem /\ items_seen = 0 /\ error = "none" /\ observations0 = <<>>

\* reflect.py:148-150: relevant_memories = list(set(relevant_memories));
\* relevant_memories.sort(key=lambda x: len(x))
PoolSort ==
    /\ pc = "gathered"
    /\ relevant_memories' \in SortedPools(SeqSet(relevant_memories))
    /\ pc' = "pooled"
    /\ UNCHANGED <<store_vars, norm_vars, rank_vars, retr_vars, relevant_memories_limited,
                   available_tokens, gpt_calls, response, batches, sent, user_prompt_list, game,
                   ext_vars, item, items_seen,
                   error, observations0>>

PoolNext == PoolSort

PoolSpec == PoolInit /\ [][PoolNext]_vars

----------------------------------------------------------------------------
(* PartitionSpec: reflect.py:203-225 on every batch of up to MaxBatch memory
   strings of a log of up to MaxBatch records *)

MaxBatch == 2

\* the memory string retrieve gives for record id of the log
MemoryString(obs, id) == [idx |-> id, desc |-> Node(obs, id).node_description]

\* the non-empty batches of a log: memory strings of different records
BatchesOf(obs) ==
    {s \in SeqsUpTo({MemoryString(obs, id) : id \in Ids(obs)}, MaxBatch) :
        /\ s # <<>>
        /\ \A i, j \in DOMAIN s : i # j => s[i].idx # s[j].idx}

PartInit ==
    /\ observations \in SeqsUpTo(InitNodes, MaxBatch)
    /\ relevant_memories_limited \in BatchesOf(observations)
    /\ user_prompt_list = NoPrompt /\ game = NoGame
    /\ ExtIdle
    /\ pc = "partition"
    /\ keyword_nodes = IndexOf(observations)
    /\ embeddings = [i \in DOMAIN observations |-> NoEmbedding]
    /\ goals = "absent"
    /\ lst = <<>> /\ norm_out = NoOut /\ norm_pc = "off"
    /\ memory_ids = <<>> /\ node_ids = <<>> /\ rank_query = NoQuery
    /\ ranked = [kind |-> "none", pairs |-> <<>>] /\ rank_pc = "off"
    /\ ret_args = NoArgs /\ memories = NoResult /\ memories2 = NoResult
    /\ retrieval_kwds = {} /\ ret_pc = "off"
    /\ relevant_memories = relevant_memories_limited
    /\ available_tokens = 0 /\ gpt_calls = 0 /\ response = "none" /\ batches = 0
    /\ sent = {}
    /\ item = NoItem /\ items_seen = 0 /\ error = "none" /\ observations0 = <<>>

\* reflect.py:203-225
Partition ==
    /\ pc = "partition"
    /\ user_prompt_list' = UserPrompt(observations, relevant_memories_limited)
    /\ pc' = "prompted"
    /\ UNCHANGED <<store_vars, norm_vars, rank_vars, retr_vars, relevant_memories,
                   relevant_memories_limited, available_tokens, gpt_calls, response,
                   batches, sent, game, ext_vars, item, items_seen, error, observations0>>

PartNext == Partition

PartitionSpec == PartInit /\ [][PartNext]_vars

----------------------------------------------------------------------------
\* C6: every sub-score minmax_normalize(values, 0, 1) produces for a
\* non-empty list lies in [0, 1], also when values are missing or zero;
\* scores are produced, one per value, whenever a value is present.
C6_SubScoresInUnitRange ==
    norm_pc = "out" =>
        /\ (\E i \in DOMAIN lst : ~IsNone(lst[i])) => ~Raised(norm_out)
        /\ ~Raised(norm_out) =>
              /\ Len(norm_out.vals) = Len(lst)
              /\ \A i \in DOMAIN norm_out.vals :
                    RLe(Zero, norm_out.vals[i]) /\ RLe(norm_out.vals[i], One)

\* C6 witness: a list with a missing value, a zero and a non-zero range
\* went through the midpoint substitution and produced scores.
C6_Witness ==
    /\ norm_pc = "out"
    /\ norm_out.kind = "array"
    /\ HasNone(lst)
    /\ \E i \in DOMAIN lst : lst[i] = Zero

AllPresentEqual(s) ==
    /\ ~HasNone(s)
    /\ \A i, j \in DOMAIN s : s[i] = s[j]

\* C7: when all values of the dimension are equal (a single candidate
\* included), the result is one score of 0.5 per candidate and no exception.
C7_EqualValuesGiveHalf ==
    (norm_pc = "out" /\ AllPresentEqual(lst)) =>
        /\ ~Raised(norm_out)
        /\ Len(norm_out.vals) = Len(lst)
        /\ \A i \in DOMAIN norm_out.vals : norm_out.vals[i] = Half

\* C7 witness: several candidates share one non-zero value.
C7_Witness ==
    /\ norm_pc = "out"
    /\ Len(lst) >= 2
    /\ AllPresentEqual(lst)
    /\ lst[1].n > 0
    /\ norm_out.kind = "list"

\* C5: the ranking is ascending by total score and, of two candidates with
\* the same total, the one with the lower id comes first.
C5_AscendingLowerIdFirst ==
    (rank_pc = "done" /\ ranked.kind = "ok") =>
        \A i, j \in DOMAIN ranked.pairs :
            i < j => \/ RLt(ranked.pairs[i].score, ranked.pairs[j].score)
                     \/ /\ ranked.pairs[i].score = ranked.pairs[j].score
                        /\ ranked.pairs[i].id < ranked.pairs[j].id

\* C4: with a limit k > 0 retrieve returns at most k results, the last k
\* (in the same order) of what the same call returns without a limit; with
\* a limit that is not positive it returns every candidate.
C4_LimitKeepsTail ==
    ret_pc # "call" /\ ret_pc # "off" =>
        LET all == retrieve(observations, keyword_nodes, embeddings, goals,
                            ret_args.query, -1, ret_args.include_idx)
            k == ret_args.n
        IN  /\ memories.kind = all.kind
            /\ k > 0 => /\ Len(memories.items) = Min2(k, Len(all.items))
                        /\ \A i \in DOMAIN memories.items :
                              memories.items[i] =
                                  all.items[Len(all.items) - Len(memories.items) + i]
            /\ k <= 0 => memories.items = all.items

\* C4 witness: a call with a limit smaller than the number of candidates.
C4_Witness ==
    /\ ret_pc = "again"
    /\ memories.kind = "list"
    /\ ret_args.n > 0
    /\ Len(memories.items) = ret_args.n
    /\ Len(retrieve(observations, keyword_nodes, embeddings, goals,
                    ret_args.query, -1, ret_args.include_idx).items) > ret_args.n

C1_CycleTerminates == (pc = "loop") ~> CycleOver

\* C2: the summarizer is called for one batch at most a fixed number of
\* times (REFLECTION_RETRIES), after which the cycle ends with an error.
C2_CallsPerBatchBounded == gpt_calls <= REFLECTION_RETRIES

\* C3: a probe query whose keywords match no record gives an empty result
\* and the cycle goes on without an error.
C3_EmptyCandidatesHandled ==
    (pc # "idle" /\ pc # "off" /\ batches = 0 /\ response = "none") =>
        (memories.kind # "None" /\ error # "TypeError")

\* the item folded last named, by a well-formed index, a record of the log
\* that is no reflection, and carried a statement
NamedNonReflection ==
    /\ pc = "fold_updated"
    /\ items_seen' = items_seen + 1
    /\ item'.shape = "object"
    /\ item'.index.kind = "int"
    /\ item'.statement # Missing
    /\ item'.index.val \in Ids(observations)
    /\ Node(observations, item'.index.val).node_type # MemoryType_REFLECTION

\* C9: an `updated` item whose index names a record that is no reflection
\* appends a new REFLECTION record with the item's statement, and the
\* records of the log, the named one among them, stay as they were.
C9_NonReflectionTargetKept ==
    [][NamedNonReflection =>
          /\ Len(observations') = Len(observations) + 1
          /\ observations'[Len(observations')].node_type = MemoryType_REFLECTION
          /\ observations'[Len(observations')].node_description = item'.statement
          /\ SubSeq(observations', 1, Len(observations)) = observations
          /\ pc' = "fold_updated"]_vars

\* C9 witness: the `updated` item named an ACTION record by its index; the
\* log is one record longer, the last a reflection with the statement.
C9_Witness ==
    /\ pc = "fold_updated"
    /\ items_seen = 1
    /\ item.index.kind = "int"
    /\ item.index.val \in Ids(observations0)
    /\ Node(observations0, item.index.val).node_type = MemoryType_ACTION
    /\ Len(observations) = Len(observations0) + 1
    /\ Node(observations, item.index.val) = Node(observations0, item.index.val)
    /\ observations[Len(observations)].node_type = MemoryType_REFLECTION
    /\ observations[Len(observations)].node_description = item.statement

\* the first item of the pool, the shortest string, exceeds the budget
ShortestExceedsBudget ==
    /\ relevant_memories # <<>>
    /\ MemoryTokens(relevant_memories[1]) > available_tokens

\* C10: when the shortest item of the pool exceeds the token budget, the
\* cycle is left before any batch: no summarizer call is made and the log
\* and its keyword index are what they were before the cycle.
C10_NoFitNoBatch ==
    (batches = 0 /\ ShortestExceedsBudget) =>
        /\ pc \in {"loop", "aborted"}
        /\ response = "none"
        /\ gpt_calls = 0
        /\ observations = observations0
        /\ keyword_nodes = IndexOf(observations0)

\* C10 witness: the cycle was left with a positive budget smaller than the
\* pool's first item, a longer item behind it.
C10_Witness ==
    /\ pc = "aborted"
    /\ batches = 0
    /\ available_tokens > 0
    /\ ShortestExceedsBudget
    /\ Len(relevant_memories) >= 2
    /\ observations = observations0

\* the item folded last was an object with a statement whose index is
\* absent or is nothing int() takes
NamedNoIndex ==
    /\ pc = "fold_updated"
    /\ items_seen' = items_seen + 1
    /\ item'.shape = "object"
    /\ item'.index.kind \in {"absent", "bad"}
    /\ item'.statement # Missing

\* C11: an `updated` item with a statement and no usable index is not
\* dropped: a new REFLECTION record with its statement is appended and the
\* records of the log stay as they were.
C11_NoIndexBecomesNew ==
    [][NamedNoIndex =>
          /\ Len(observations') = Len(observations) + 1
          /\ observations'[Len(observations')].node_type = MemoryType_REFLECTION
          /\ observations'[Len(observations')].node_description = item'.statement
          /\ SubSeq(observations', 1, Len(observations)) = observations
          /\ pc' = "fold_updated"]_vars

\* C11 witness: an `updated` item whose index is no integer was folded; the
\* log of a cycle that began with a reflection in it is one record longer.
C11_Witness ==
    /\ pc = "fold_updated"
    /\ items_seen = 1
    /\ item.shape = "object"
    /\ item.index.kind = "bad"
    /\ \E i \in DOMAIN observations0 : observations0[i].node_type = MemoryType_REFLECTION
    /\ Len(observations) = Len(observations0) + 1
    /\ SubSeq(observations, 1, Len(observations0)) = observations0
    /\ observations[Len(observations)].node_type = MemoryType_REFLECTION
    /\ observations[Len(observations)].node_description = item.statement

\* C12: folding a parsed response never raises on a malformed item or on a
\* `new` / `updated` value of the wrong shape.
C12_MalformedItemsSkipped == response = "json" => error # "TypeError"

\* C13: a response that is no JSON leaves the batch, the pool and the log as
\* they are and the same batch is sent again; the pool loses a batch only
\* after a parsed response for it was folded.
C13_UnparsedBatchKept ==
    [][/\ (pc = "generate" /\ response' \in UnparseableTexts) =>
              /\ pc' = "generate"
              /\ relevant_memories' = relevant_memories
              /\ relevant_memories_limited' = relevant_memories_limited
              /\ observations' = observations
              /\ keyword_nodes' = keyword_nodes
       /\ (pc # "idle" /\ relevant_memories' # relevant_memories) =>
              (pc = "fold_updated" /\ response = "json")]_vars

\* C13 witness: the second batch of a cycle is sent for the third time, still
\* in the pool.
C13_Witness ==
    /\ pc = "generate"
    /\ batches >= 1
    /\ gpt_calls >= 2
    /\ response \in UnparseableTexts
    /\ relevant_memories_limited # <<>>
    /\ \A k \in DOMAIN relevant_memories_limited :
          relevant_memories_limited[k] \in SeqSet(relevant_memories)

C15_BudgetExceededHandled == response = "over_limit_tuple" => pc # "error"
\* the newest record of the log
LastId == Len(observations) - 1

\* the newest record is strictly the most important candidate, and the
\* query is its description, which no other record has
LastIsBestCandidate ==
    /\ ret_args.query = Node(observations, LastId).node_description
    /\ \A i \in Ids(observations) \ {LastId} :
          /\ RLt(Node(observations, i).node_importance,
                 Node(observations, LastId).node_importance)
          /\ CosSim(Node(observations, i).node_description, ret_args.query) < 100

\* C16: on a log whose records share a keyword and whose newest record has
\* at once the highest id, the highest importance and the highest relevance
\* to the query, retrieve with n = 1 and include_idx returns exactly one
\* element, the id and the description of that record.
C16_BestCandidateReturned ==
    (ret_pc = "returned" /\ ret_args.n = 1 /\ ret_args.include_idx
        /\ LastIsBestCandidate)
    => memories = [kind |-> "list",
                   items |-> <<[idx |-> LastId,
                                desc |-> Node(observations, LastId).node_description]>>]

\* the scenario itself: importances 1, 5, 9 on ids 0, 1 and the newest
C16_Witness ==
    /\ ret_pc = "returned" /\ ret_args.n = 1 /\ ret_args.include_idx
    /\ LastIsBestCandidate
    /\ Node(observations, 0).node_importance = Rat(1, 1)
    /\ Node(observations, 1).node_importance = Rat(5, 1)
    /\ Node(observations, LastId).node_importance = Rat(9, 1)
    /\ memories.kind = "list" /\ Len(memories.items) = 1
    /\ memories.items[1].idx = LastId

\* alpha * score for one candidate
Weighted(alpha, score) == RMul(Rat(alpha, 1), score)

\* wR * recency + wI * importance + wV * relevance of the k-th candidate
WeightedSum(k) ==
    RAdd(RAdd(Weighted(recency_alpha,
                       calculate_node_recency(observations, node_ids).vals[k]),
              Weighted(importance_alpha,
                       calculate_node_importance(observations, node_ids).vals[k])),
         Weighted(relevance_alpha,
                  calculate_node_relevance(observations, embeddings, goals,
                                           node_ids, rank_query).vals[k]))

\* C17: rank_nodes gives one pair per candidate, and the total paired with
\* a candidate id is wR*recency + wI*importance + wV*relevance of that same
\* candidate's normalized sub-scores, also for a single candidate (1.5).
C17_TotalIsWeightedSum ==
    rank_pc = "done" =>
        /\ ranked.kind = "ok"
        /\ Len(ranked.pairs) = Len(node_ids)
        /\ \A k \in DOMAIN node_ids :
              \E j \in DOMAIN ranked.pairs :
                 /\ ranked.pairs[j].id = node_ids[k]
                 /\ ranked.pairs[j].score = WeightedSum(k)

\* the values of lst that are present
PresentValues == {lst[i] : i \in {j \in DOMAIN lst : ~IsNone(lst[j])}}

PresentMin == CHOOSE x \in PresentValues : \A y \in PresentValues : RLe(x, y)
PresentMax == CHOOSE x \in PresentValues : \A y \in PresentValues : RLe(y, x)

\* the score of a present value x between the smallest and the largest
\* present value; the midpoint when they are equal
ScoreAmongPresent(x) ==
    IF PresentMin = PresentMax THEN Half
    ELSE RDiv(RSub(x, PresentMin), RSub(PresentMax, PresentMin))

\* C18: for a list with missing values minmax_normalize(lst, 0, 1) returns
\* one score per input, in the same positions; a missing value gets the
\* midpoint, and a present value (a 0 included) is normalized from its own
\* value with the minimum and maximum taken over the present values.
C18_MissingBecomesMidpoint ==
    (norm_pc = "out" /\ HasNone(lst)) =>
        /\ ~Raised(norm_out)
        /\ Len(norm_out.vals) = Len(lst)
        /\ \A i \in DOMAIN lst :
              norm_out.vals[i] = IF IsNone(lst[i]) THEN Half
                                 ELSE ScoreAmongPresent(lst[i])

\* the keywords of the last `lookback` records of the log
RecentKeywords ==
    UNION {extract_keywords(observations[k].node_description) :
              k \in {j \in DOMAIN observations : j > Len(observations) - lookback}}

\* the keywords of the query of the last call
QueryKeywords ==
    IF ret_args.query = NoQuery THEN {} ELSE extract_keywords(ret_args.query)

\* C19: for a character without goals (no goals attribute, or goals that
\* yield an empty text) retrieve completes without an exception and the
\* keywords searched with are those of the recent records and of the query,
\* nothing added and nothing lost.
C19_AbsentGoalsTolerated ==
    (ret_pc = "returned" /\ goals \in {"absent", ""}) =>
        /\ memories.kind \in {"list", "None"}
        /\ retrieval_kwds = RecentKeywords \cup QueryKeywords

\* a call for a character without a goals attribute that found memories
\* by the keywords of the records and the query
C19_Witness ==
    /\ ret_pc = "returned" /\ goals = "absent"
    /\ ret_args.query = "q_learn"
    /\ retrieval_kwds = RecentKeywords \cup {<<"misc_deps", "agent">>}
    /\ memories.kind = "list" /\ Len(memories.items) >= 1

\* C20: whenever consolidation gives a REFLECTION record a new description
\* its embedding is recomputed from that description in the same step: in
\* every state of a cycle, and so after a cycle that completed, an embedding
\* that is cached is the embedding of the description the record has now.
C20_EmbeddingFollowsDescription ==
    \A i \in DOMAIN embeddings :
        embeddings[i] # NoEmbedding => embeddings[i] = observations[i].node_description

\* a completed cycle that changed the description of a reflection whose
\* embedding had been cached from the old description
C20_Witness ==
    /\ pc = "done"
    /\ \E i \in DOMAIN observations0 :
          /\ observations0[i].node_type = MemoryType_REFLECTION
          /\ observations[i].node_type = MemoryType_REFLECTION
          /\ observations[i].node_description # observations0[i].node_description
          /\ extract_keywords(observations0[i].node_description) # {}
          /\ embeddings[i] = observations[i].node_description

\* the states in which a batch is with the summarizer or being folded
BatchInHand == {"generate", "fold_new", "fold_updated"}

\* C21: the token budget is computed once, before the loop, and no step of
\* the loop changes it; the tokens of every batch cut for the summarizer
\* are at most the budget.
C21_BudgetFixedAndKept ==
    [][/\ pc # "idle" => available_tokens' = available_tokens
       /\ pc' \in BatchInHand =>
             get_prompt_token_count(relevant_memories_limited') <= available_tokens']_vars

\* the second batch of a cycle, which uses the whole budget
C21_Witness ==
    /\ pc = "generate" /\ batches >= 1
    /\ relevant_memories_limited # <<>>
    /\ get_prompt_token_count(relevant_memories_limited) = available_tokens

\* C22: the pool built from the probe results holds each record id at most
\* once and is ordered by the length of the records' descriptions, shortest
\* first, whatever the number of digits of the ids.
C22_PoolByDescriptionLength ==
    pc = "pooled" =>
        \A i, j \in DOMAIN relevant_memories :
            i < j => /\ relevant_memories[i].idx # relevant_memories[j].idx
                     /\ DescLen(relevant_memories[i].desc)
                           <= DescLen(relevant_memories[j].desc)

\* the items of s that are not in the set S, in the order they have in s
RECURSIVE Remaining(_, _)
Remaining(s, S) ==
    IF s = <<>> THEN <<>>
    ELSE IF Head(s) \in S THEN Remaining(Tail(s), S)
    ELSE <<Head(s)>> \o Remaining(Tail(s), S)

Occurrences(s, x) == Cardinality({k \in DOMAIN s : s[k] = x})

\* the batch items whose record is a reflection now, and the others
BatchReflections ==
    {k \in DOMAIN relevant_memories_limited :
        Node(observations, relevant_memories_limited[k].idx).node_type
            = MemoryType_REFLECTION}
BatchOthers == DOMAIN relevant_memories_limited \ BatchReflections

\* C24: every item of a batch is in exactly one section of the prompt, a
\* REFLECTION record under the reflections and any other record under the
\* memories; a section no item falls in holds the single placeholder
\* 'None', so neither section is empty.
C24_BatchPartitioned ==
    pc = "prompted" =>
        /\ user_prompt_list.reflections # <<>> /\ user_prompt_list.memories # <<>>
        /\ BatchReflections = {} => user_prompt_list.reflections = <<NonePrimer>>
        /\ BatchOthers = {} => user_prompt_list.memories = <<NonePrimer>>
        /\ BatchReflections # {} =>
              Len(user_prompt_list.reflections) = Cardinality(BatchReflections)
        /\ BatchOthers # {} => Len(user_prompt_list.memories) = Cardinality(BatchOthers)
        /\ \A k \in BatchReflections :
              /\ Occurrences(user_prompt_list.reflections, relevant_memories_limited[k]) = 1
              /\ Occurrences(user_prompt_list.memories, relevant_memories_limited[k]) = 0
        /\ \A k \in BatchOthers :
              /\ Occurrences(user_prompt_list.memories,
                             [idx |-> -1, desc |-> relevant_memories_limited[k].desc])
                    = Cardinality({j \in BatchOthers : relevant_memories_limited[j].desc
                                                         = relevant_memories_limited[k].desc})
              /\ Occurrences(user_prompt_list.reflections, relevant_memories_limited[k]) = 0

\* a batch of observations only: the reflections section is the placeholder
C24_Witness ==
    /\ pc = "prompted"
    /\ Len(relevant_memories_limited) = 2
    /\ BatchReflections = {}
    /\ user_prompt_list.reflections = <<NonePrimer>>
    /\ Len(user_prompt_list.memories) = 2

\* C25: whatever the summarizer answers, indices that are negative or name
\* no record included, a step of the cycle never shortens the log, every
\* record it appends is a REFLECTION, and every record that is no
\* REFLECTION keeps its description.
C25_LogOnlyGrowsOrRevises ==
    [][pc # "off" =>
         /\ Len(observations') >= Len(observations)
         /\ \A i \in DOMAIN observations' :
               i > Len(observations) =>
                  observations'[i].node_type = MemoryType_REFLECTION
         /\ \A i \in DOMAIN observations :
               observations[i].node_type # MemoryType_REFLECTION =>
                  /\ observations'[i].node_type = observations[i].node_type
                  /\ observations'[i].node_description
                        = observations[i].node_description]_vars

\* an `updated` item with the index -1 and a statement was folded into a log
\* whose last record is no reflection: no record was changed
C25_Witness ==
    /\ item.shape = "object" /\ item.index = IntIndex(-1) /\ item.statement # Missing
    /\ observations # <<>>
    /\ observations[Len(observations)].node_type = MemoryType_ACTION
    /\ observations = observations0
    /\ error = "NotFound"

\* the keywords of the goals the character has for the round being played
CurrentRoundGoalKeywords ==
    IF ~game.goals.present THEN {} ELSE extract_keywords(game.goals.of_round[game.round])

\* C26: the keywords retrieve searches with are the union, per category, of
\* the keywords of the last `lookback` records, of the character's goals
\* for the current round and of the query; a source without keywords adds
\* nothing and takes nothing away.
C26_KeywordsOfThreeSources ==
    ret_pc = "gathered" =>
        retrieval_kwds = RecentKeywords \cup CurrentRoundGoalKeywords \cup QueryKeywords

----------------------------------------------------------------------------
(* ActSpec: Act.act on one Act object, the completion service answering
   each request with an action text or with an over-limit report *)

\* the memory, its retrieval and the reflection cycle take no part
BaseIdle ==
    /\ observations = <<>> /\ keyword_nodes = IndexOf(<<>>) /\ embeddings = <<>>
    /\ goals = "absent" /\ game = NoGame
    /\ ret_args = NoArgs /\ memories = NoResult /\ memories2 = NoResult
    /\ retrieval_kwds = {} /\ ret_pc = "off"
    /\ lst = <<>> /\ norm_out = NoOut /\ norm_pc = "off"
    /\ memory_ids = <<>> /\ node_ids = <<>> /\ rank_query = NoQuery
    /\ ranked = [kind |-> "none", pairs |-> <<>>] /\ rank_pc = "off"
    /\ pc = "off" /\ relevant_memories = <<>> /\ relevant_memories_limited = <<>>
    /\ available_tokens = 0 /\ gpt_calls = 0 /\ response = "none" /\ batches = 0
    /\ sent = {} /\ user_prompt_list = NoPrompt
    /\ item = NoItem /\ items_seen = 0 /\ error = "none" /\ observations0 = <<>>

\* act() calls made on one Act object
MaxActs == 3

\* the largest token_difference the service reports
MaxDiff == 2

\* token counts of the system prompt (get_prompt_token_count, act.py:118)
SysTokenCounts == {10, 20}

\* the action texts the service answers with
ActionTexts == {"go north", "wait"}

\* act.py:88-93  build_messages: consumed_tokens = sys_token_count + self.token_offset
build_messages(sys_token_count, offset) == sys_token_count + offset

\* act.py:82  self.token_offset = token_difference + self.offset_pad
NextOffset(token_difference, pad) == token_difference + pad

\* act.py:83  self.offset_pad += 2 * self.offset_pad
NextPad(pad) == pad + 2 * pad

ActInit ==
    /\ BaseIdle
    /\ ExtIdle

\* act.py:55-57: act() builds the messages with the offset the object holds
\* and asks for an action
ActBegin ==
    /\ act_pc \in {"idle", "returned", "TypeError"}
    /\ act_calls < MaxActs
    /\ \E sys_token_count \in SysTokenCounts :
          consumed_tokens' = build_messages(sys_token_count, token_offset)
    /\ act_pc' = "generate"
    /\ act_calls' = act_calls + 1
    /\ UNCHANGED <<act_rest, token_offset, offset_pad, act_response, action_to_take>>

\* act.py:70-75, 86, 63-67: the response is a text; generate_action returns
\* it and act() returns it
GenerateActionText ==
    /\ act_pc = "generate"
    /\ \E text \in ActionTexts :
          /\ act_response' = [limit_exceeded |-> FALSE, text |-> text, token_difference |-> 0]
          /\ action_to_take' = text
    /\ act_pc' = "returned"
    /\ UNCHANGED <<act_rest, token_offset, offset_pad, consumed_tokens, act_calls>>

\* act.py:77-84: the response is the tuple (success, token_difference); the
\* offset and the pad are set and act is called with two arguments more
\* than `def act(self)` (act.py:55) takes: the call raises TypeError before
\* any message is built, and nothing in act.py catches it
GenerateActionOverLimit ==
    /\ act_pc = "generate"
    /\ \E token_difference \in 1..MaxDiff :
          /\ act_response' = [limit_exceeded |-> TRUE, text |-> "none",
                              token_difference |-> token_difference]
          /\ token_offset' = NextOffset(token_difference, offset_pad)
    /\ offset_pad' = NextPad(offset_pad)
    /\ act_pc' = "TypeError"
    /\ UNCHANGED <<act_rest, consumed_tokens, action_to_take, act_calls>>

ActNext == ActBegin \/ GenerateActionText \/ GenerateActionOverLimit

ActSpec == ActInit /\ [][ActNext]_vars

\* an act() call is over
ActOver == act_pc \in {"returned", "TypeError"}

\* C27: after an over-limit report of d tokens the action request is made
\* again with a prompt that reserves d plus the pad, the pad growing with
\* each such report, and the act() call ends by returning the text of the
\* first response that is no over-limit report.
C27_RetriedUntilAnswered ==
    ActOver =>
        /\ act_pc = "returned"
        /\ ~act_response.limit_exceeded
        /\ action_to_take = act_response.text

----------------------------------------------------------------------------
(* HandlerSpec: the four helpers of gpt_agent_setup called one after another
   on the module's GPT_HANDLER; a completion call returns or raises *)

\* helper calls made in one behaviour
MaxHelperCalls == 3

Helpers == {"get_new_character_from_gpt", "get_trait_continuum",
            "get_target_adjective", "summarize_agent_facts"}

\* gpt_agent_setup.py:25, 71, 98, 136: the keyword arguments each helper
\* hands to GPT_HANDLER.update_params
Overrides(h) ==
    CASE h = "get_new_character_from_gpt" ->
            [max_tokens |-> Rat(200, 1), temperature |-> Rat(5, 4)]
      [] h = "get_trait_continuum" ->
            [top_p |-> Rat(1, 2)]
      [] h = "get_target_adjective" ->
            [max_tokens |-> Rat(10, 1), top_p |-> Rat(1, 2)]
      [] h = "summarize_agent_facts" ->
            [stop |-> ".", max_tokens |-> Rat(100, 1), presence_penalty |-> Rat(1, 5)]

\* GptCallHandler.update_params(**kwargs): the named parameters are set,
\* the others keep the value the handler holds
update_params(params, kwargs) ==
    [k \in DOMAIN params |-> IF k \in DOMAIN kwargs THEN kwargs[k] ELSE params[k]]

\* GptCallHandler.reset_defaults(): the parameters of construction
reset_defaults(params) == DefaultParams

\* gpt_agent_setup.py:45, 74, 101, 138: GPT_HANDLER.reset_defaults() is the
\* statement after the completion call
AfterCompletion(params) == reset_defaults(params)

\* gpt_agent_setup.py:44, 73, 100, 137: an exception of generate leaves the
\* helper at once; no try/finally, so reset_defaults() is not run
AfterException(params) == params

HandlerInit ==
    /\ BaseIdle
    /\ ExtIdle

\* gpt_agent_setup.py:25, 71, 98, 136: a helper is called and sets its
\* parameters on the shared handler
HelperBegin ==
    /\ helper_pc \in {"idle", "finished", "raised"}
    /\ helper_calls < MaxHelperCalls
    /\ \E h \in Helpers :
          /\ helper' = h
          /\ GPT_HANDLER' = update_params(GPT_HANDLER, Overrides(h))
    /\ helper_pc' = "generate"
    /\ helper_calls' = helper_calls + 1
    /\ UNCHANGED <<handler_rest, completion_params>>

\* gpt_agent_setup.py:44-45, 73-74, 100-101, 137-138: generate returns (a
\* text or the over-limit tuple) and the defaults are restored
CompletionReturns ==
    /\ helper_pc = "generate"
    /\ completion_params' = GPT_HANDLER
    /\ GPT_HANDLER' = AfterCompletion(GPT_HANDLER)
    /\ helper_pc' = "finished"
    /\ UNCHANGED <<handler_rest, helper, helper_calls>>

\* gpt_agent_setup.py:44, 73, 100, 137: generate raises after its retries
CompletionFails ==
    /\ helper_pc = "generate"
    /\ completion_params' = GPT_HANDLER
    /\ GPT_HANDLER' = AfterException(GPT_HANDLER)
    /\ helper_pc' = "raised"
    /\ UNCHANGED <<handler_rest, helper, helper_calls>>

HandlerNext == HelperBegin \/ CompletionReturns \/ CompletionFails

HandlerSpec == HandlerInit /\ [][HandlerNext]_vars

\* a helper call is over, by return or by exception
HelperOver == helper_pc \in {"finished", "raised"}

\* the defaults with only the overrides of the helper at hand
OwnParams(h) ==
    [k \in DOMAIN DefaultParams |->
        IF k \in DOMAIN Overrides(h) THEN Overrides(h)[k] ELSE DefaultParams[k]]

\* C28: whenever a helper of gpt_agent_setup is over, by return or because
\* the completion call failed, GPT_HANDLER holds its default parameters, and
\* the completion call of a helper ran with the defaults and that helper's
\* own overrides only.
C28_HandlerRestored ==
    HelperOver =>
        /\ GPT_HANDLER = DefaultParams
        /\ completion_params = OwnParams(helper)

----------------------------------------------------------------------------
(* ParserSpec: parse_command calls on one parser, of class Parser or
   GptParser; what the command parses to and whether the action's
   preconditions hold is the game's matter and is drawn per call *)

\* parse_command calls made in one behaviour
MaxParseCalls == 3

Commands == {"look", "get axe"}

\* the character that gives the commands (thing.name)
thing_name == "troll"

\* the description an action hands to ok, and the narrator's text
\* (GptParser.gpt_describe) for a failure
OutcomeDescription == "the troll did it"
NarratorResponse == "the troll could not"

\* what parse_action finds and how the action found goes
ParseOutcomes == {"no_action", "sequence", "preconditions_fail", "applied"}

\* parsing.py:85-88  Parser.add_command_to_history
add_command_to_history(history, command) ==
    Append(history, [role |-> "user", content |-> command])

\* parsing.py:90-98  Parser.add_description_to_history
add_description_to_history(history, description) ==
    Append(history, [role |-> "assistant", content |-> description])

\* parsing.py:542, 609  command = f"{thing.name}'s action: {command}"
NamedCommand(command) == thing_name \o "'s action: " \o command

\* parsing.py:63-68  Parser.ok and parsing.py:534-565  GptParser.ok (thing
\* is a Character)
ok(class, history, command, description) ==
    IF class = "Parser"
    THEN add_description_to_history(history, description)
    ELSE add_command_to_history(history, NamedCommand(command))

\* parsing.py:70-74  Parser.fail and parsing.py:588-639  GptParser.fail
\* (thing is a Character)
fail(class, history, command, description) ==
    IF class = "Parser"
    THEN history
    ELSE add_description_to_history(
             add_command_to_history(history, NamedCommand(command)),
             NarratorResponse)

\* parsing.py:210-213  Parser.command_repeated
command_repeated(history, command) ==
    IF Len(history) = 0 THEN FALSE
    ELSE command = history[Len(history)].content

\* parsing.py:172-189  parse_action: self.fail when no action is found
parse_action(class, history, command, outcome) ==
    IF outcome = "no_action"
    THEN fail(class, history, command, "No action found")
    ELSE history

\* the action object called (actions/base.py Action.__call__): a failed
\* check_preconditions reports through parser.fail (talk.py:41-60),
\* apply_effects through parser.ok (talk.py:75)
CallAction(class, history, command, outcome) ==
    IF outcome = "applied"
    THEN ok(class, history, command, OutcomeDescription)
    ELSE fail(class, history, command, "precondition")

\* parsing.py:197-208: the command goes to the history, is parsed and the
\* action, if there is exactly one, is called
Parsed(class, history, command, outcome) ==
    LET noted == add_command_to_history(history, command)
        after == parse_action(class, noted, command, outcome)
    IN  IF outcome \in {"no_action", "sequence"}
        THEN [history |-> fail(class, after, command, "not one action"),
              returned |-> FALSE, executed |-> FALSE]
        ELSE [history |-> CallAction(class, after, command, outcome),
              returned |-> (outcome = "applied"), executed |-> TRUE]

\* parsing.py:191-208  parse_command
parse_command(class, history, command, outcome) ==
    IF command_repeated(history, command)
    THEN [history |-> history, returned |-> FALSE, executed |-> FALSE]
    ELSE Parsed(class, history, command, outcome)

ParserInit ==
    /\ BaseIdle
    /\ ActIdle /\ HandlerIdle /\ TalkIdle
    /\ command_history = <<>>
    /\ parser_class \in {"Parser", "GptParser"}
    /\ parse_args = [command |-> "none", previous |-> "none"]
    /\ parse_out = NoCall
    /\ parse_calls = 0

ParseCommand ==
    /\ parse_calls < MaxParseCalls
    /\ \E command \in Commands, outcome \in ParseOutcomes :
          LET r == parse_command(parser_class, command_history, command, outcome)
          IN  /\ command_history' = r.history
              /\ parse_args' = [command |-> command, previous |-> parse_args.command]
              /\ parse_out' = [returned |-> r.returned, executed |-> r.executed,
                               appended |-> Len(r.history) - Len(command_history)]
    /\ parse_calls' = parse_calls + 1
    /\ UNCHANGED <<parser_rest, parser_class>>

ParserNext == ParseCommand

ParserSpec == ParserInit /\ [][ParserNext]_vars

\* C29: a parse_command call with the command of the call before it on the
\* same parser is taken for a repeat: it returns False, calls no action and
\* appends nothing to command_history.
C29_SecondCallIsRepeat ==
    (parse_calls >= 2 /\ parse_args.command = parse_args.previous) =>
        /\ ~parse_out.returned
        /\ ~parse_out.executed
        /\ parse_out.appended = 0

----------------------------------------------------------------------------
(* TalkSpec: Talk actions called one after another in a game of three
   characters and two locations, the characters moving in between *)

\* game.characters, in the order of the dictionary's keys
CharacterOrder == <<"troll", "elf", "orc">>

Characters == {CharacterOrder[k] : k \in DOMAIN CharacterOrder}

\* game.player
player == "troll"

Locations == {"camp", "beach"}

\* no character (Python's None)
NoCharacter == "None"

\* Talk actions called in one behaviour
MaxTalks == 2

\* the commands a Talk is built with: the names of characters the text has
\* before and after its first talk word, if it has one
Mentions == {{}} \cup {{c} : c \in Characters}

TalkCommands == [talk_word : BOOLEAN, before : Mentions, after : Mentions]

\* talk.py:22-29: the part of the command after the first talk word found,
\* the whole command when it holds none
command_after_word(command) ==
    IF command.talk_word THEN command.after ELSE command.before \cup command.after

\* parsing.py:242-253  Parser.get_character: the first character, in the
\* order of game.characters, whose name is in the command; else the player
FirstNamed(names) ==
    IF names = {} THEN player
    ELSE CharacterOrder[CHOOSE k \in DOMAIN CharacterOrder :
            /\ CharacterOrder[k] \in names
            /\ \A j \in 1..(k - 1) : CharacterOrder[j] \notin names]

\* talk.py:31  self.parser.get_character(command_after_word, character=None):
\* Parser.get_character, or GptParser3.get_character (parsing.py:683-733),
\* which gives what the completion service picks, a character or none
get_character(class, names) ==
    IF class = "GptParser3" THEN Characters \cup {NoCharacter} ELSE {FirstNamed(names)}

\* Action.was_matched(character, thing): the thing was found
was_matched(thing) == thing # NoCharacter

\* Location.here(thing): the thing is at this location
here(location, thing, where) == where[thing] = location

\* Character.get_last_dialogue_target()
get_last_dialogue_target(last, character) == last[character]

\* Character.set_dialogue_participant(talked_to)
set_dialogue_participant(last, character, talked_to) ==
    [last EXCEPT ![character] = talked_to]

\* talk.py:34-61  Talk.check_preconditions
check_preconditions(starter, talked_to, where, last) ==
    IF talked_to = NoCharacter THEN FALSE
    ELSE IF talked_to = get_last_dialogue_target(last, starter) THEN FALSE
    ELSE IF ~was_matched(starter) THEN FALSE
    ELSE IF ~was_matched(talked_to) THEN FALSE
    ELSE IF ~here(where[starter], talked_to, where) THEN FALSE
    ELSE TRUE

\* a mutant of RecordParticipants: only the starter's target is recorded
RecordStarterOnly(last, starter, talked_to) ==
    set_dialogue_participant(last, starter, talked_to)

\* talk.py:72-73: each participant is set as the other's dialogue target
RecordParticipants(last, starter, talked_to) ==
    set_dialogue_participant(set_dialogue_participant(last, starter, talked_to),
                             talked_to, starter)

\* talk.py:63-76  Talk.apply_effects: the dialogue runs and is recorded
apply_effects(last, starter, talked_to) == RecordParticipants(last, starter, talked_to)

\* the last two entries of a list
LastTwo(s) == IF Len(s) <= 2 THEN s ELSE SubSeq(s, Len(s) - 1, Len(s))

TalkInit ==
    /\ BaseIdle
    /\ ActIdle /\ HandlerIdle
    /\ command_history = <<>>
    /\ parser_class \in {"Parser", "GptParser3"}
    /\ parse_args = [command |-> "none", previous |-> "none"]
    /\ parse_out = NoCall
    /\ parse_calls = 0
    /\ char_location \in [Characters -> Locations]
    /\ last_dialogue_target = [c \in Characters |-> NoCharacter]
    /\ talk_log = <<>>
    /\ talks = 0

\* talk.py:13-76: a Talk is built from a command of the starter and called:
\* apply_effects runs if check_preconditions holds
Talk ==
    /\ talks < MaxTalks
    /\ talks' = talks + 1
    /\ \E starter \in Characters, command \in TalkCommands :
          \E talked_to \in get_character(parser_class, command_after_word(command)) :
             LET started == check_preconditions(starter, talked_to, char_location,
                                                last_dialogue_target)
                 entry == [starter |-> starter, talked_to |-> talked_to,
                           in_location |-> /\ talked_to # NoCharacter
                                           /\ char_location[talked_to] = char_location[starter],
                           was_last |-> last_dialogue_target[starter] = talked_to,
                           started |-> started]
             IN  /\ last_dialogue_target' =
                       IF started THEN apply_effects(last_dialogue_target, starter, talked_to)
                       ELSE last_dialogue_target
                 /\ talk_log' = LastTwo(Append(talk_log, entry))
    /\ UNCHANGED <<talk_rest, char_location>>

\* a character goes to another location
Move ==
    /\ \E character \in Characters, location \in Locations :
          /\ char_location[character] # location
          /\ char_location' = [char_location EXCEPT ![character] = location]
    /\ UNCHANGED <<talk_rest, last_dialogue_target, talk_log, talks>>

TalkNext == Talk \/ Move

TalkSpec == TalkInit /\ [][TalkNext]_vars

\* two Talk actions are between the same two characters, either way round
SamePair(a, b) ==
    \/ (a.starter = b.starter /\ a.talked_to = b.talked_to)
    \/ (a.starter = b.talked_to /\ a.talked_to = b.starter)

\* C30: a Talk starts a dialogue only if there is a talked-to character, in
\* the starter's location, that is not the starter's last dialogue target;
\* once a dialogue between S and T has started each is the other's last
\* dialogue target, and the next Talk, if it is from S to T or from T to S,
\* starts no dialogue.
C30_TalkOnlyWhenAllowed ==
    \A i \in DOMAIN talk_log :
       /\ talk_log[i].started =>
             /\ talk_log[i].talked_to # NoCharacter
             /\ talk_log[i].in_location
             /\ ~talk_log[i].was_last
       /\ (i = Len(talk_log) /\ talk_log[i].started) =>
             /\ last_dialogue_target[talk_log[i].starter] = talk_log[i].talked_to
             /\ last_dialogue_target[talk_log[i].talked_to] = talk_log[i].starter
       /\ (i > 1 /\ talk_log[i - 1].started /\ SamePair(talk_log[i - 1], talk_log[i])) =>
             ~talk_log[i].started

\* a dialogue of two characters has started and the next Talk, from the
\* talked-to character back to the starter, both still in one location,
\* has started none
C30_Witness ==
    /\ Len(talk_log) = 2
    /\ talk_log[1].started
    /\ talk_log[1].starter # talk_log[1].talked_to
    /\ talk_log[2].starter = talk_log[1].talked_to
    /\ talk_log[2].talked_to = talk_log[1].starter
    /\ talk_log[2].in_location
    /\ ~talk_log[2].started

====
